---------------------------- MODULE Spec2Model ----------------------------
(***************************************************************************)
(* A model of the Nurikabe solver of src/sudoku/stl/nurikabe.cpp: the      *)
(* constructor Grid::Grid (parsing included), Grid::solve with its rule    *)
(* pipeline, mark / fuse_regions, unreachable, confined,                   *)
(* detect_contradictions, analyze_confinement and analyze_hypotheticals,   *)
(* and the caller's loop of main.                                          *)
(*                                                                         *)
(* A cell (x, y) is the index x + y * m_width (the index confined() uses   *)
(* for its flags).  A region object is named by the index + 1 of the cell  *)
(* whose add_region() created it; 0 is the empty shared_ptr.               *)
(***************************************************************************)
EXTENDS Integers, Sequences, FiniteSets, TLC

\* ------------------------------------------------------------------------
\* Bounds of the model
\* ------------------------------------------------------------------------
MaxLen == 3
MaxDim == 2
MaxClue == 3
MaxClues == 2
MaxCalls == 60
MaxExtra == 2

\* ------------------------------------------------------------------------
\* Program constants
\* ------------------------------------------------------------------------
UNKNOWN == -3
WHITE == -2
BLACK == -1
INT_MAX == 2147483647

CONTRADICTION_FOUND == "CONTRADICTION_FOUND"
SOLUTION_FOUND == "SOLUTION_FOUND"
KEEP_GOING == "KEEP_GOING"
CANNOT_PROCEED == "CANNOT_PROCEED"
SitRep == {CONTRADICTION_FOUND, SOLUTION_FOUND, KEEP_GOING, CANNOT_PROCEED}

\* ------------------------------------------------------------------------
\* Characters of the input string; a string is a sequence of characters
\* ------------------------------------------------------------------------
DigitVal == [c \in {"0", "1", "2", "3", "4", "5", "6", "7", "8", "9"} |->
               CASE c = "0" -> 0 [] c = "1" -> 1 [] c = "2" -> 2 [] c = "3" -> 3
                 [] c = "4" -> 4 [] c = "5" -> 5 [] c = "6" -> 6 [] c = "7" -> 7
                 [] c = "8" -> 8 [] c = "9" -> 9]

IsDigit(c) == c \in DOMAIN DigitVal

\* std::stoi on a run of digits: the value, or -1 when it does not fit an int
\* (stoi throws std::out_of_range).
RECURSIVE stoi(_, _)
stoi(run, acc) ==
    IF run = <<>> THEN acc
    ELSE LET d == DigitVal[Head(run)]
         IN IF acc > (INT_MAX - d) \div 10 THEN -1
            ELSE stoi(Tail(run), acc * 10 + d)

\* The end (exclusive) of the maximal run of digits of s that starts at i.
RECURSIVE DigitRunEnd(_, _)
DigitRunEnd(s, i) ==
    IF i <= Len(s) /\ IsDigit(s[i]) THEN DigitRunEnd(s, i + 1) ELSE i

\* The regex with "\d" for "\d+": every digit is a match of its own.
MatchStarts_digit(s) == 1..Len(s)

\* The matches the sregex_iterator of the constructor finds for
\* "(\d+)|( )|(\n)|[^\d \n]": a match starts at every character that is
\* not a digit and at the first digit of every maximal run of digits.
MatchStarts(s) ==
    {i \in 1..Len(s) : ~IsDigit(s[i]) \/ i = 1 \/ ~IsDigit(s[i - 1])}

\* What the loop body does with the match that starts at i: the number
\* pushed on v; or -1 for a newline (nothing is pushed); or the exception
\* thrown, -2 for stoi's out_of_range, -3 for the runtime_error of a
\* character that is no digit, space or newline.
MatchValue(s, i) ==
    IF IsDigit(s[i])
    THEN LET n == stoi(SubSeq(s, i, DigitRunEnd(s, i) - 1), 0)
         IN IF n < 0 THEN -2 ELSE n
    ELSE IF s[i] = " " THEN 0
    ELSE IF s[i] = "\n" THEN -1
    ELSE -3

\* The loop over the matches: the exception of the first match that throws,
\* or the vector v of the numbers pushed, in the order of the matches.
Parse(s) ==
    LET val == [i \in MatchStarts(s) |-> MatchValue(s, i)]
        throwing == {i \in MatchStarts(s) : val[i] < -1}
        pushing == {i \in MatchStarts(s) : val[i] >= 0}
        rank(i) == Cardinality({j \in pushing : j <= i})
        first == CHOOSE i \in throwing : \A j \in throwing : i <= j
    IN IF throwing # {}
       THEN [err |-> IF val[first] = -2 THEN "out_of_range" ELSE "bad_char", v |-> <<>>]
       ELSE [err |-> "none",
             v |-> [n \in 1..Cardinality(pushing) |->
                      val[CHOOSE i \in pushing : rank(i) = n]]]

\* ------------------------------------------------------------------------
\* Grid primitives
\* ------------------------------------------------------------------------
NumCells(g) == g.m_width * g.m_height
Idx(g, x, y) == x + y * g.m_width
XOf(g, k) == k % g.m_width
YOf(g, k) == k \div g.m_width

valid(g, x, y) == x >= 0 /\ x < g.m_width /\ y >= 0 /\ y < g.m_height

\* The neighbours of cell k in the order for_valid_neighbors visits them.
for_valid_neighbors(g, k) ==
    LET x == XOf(g, k)
        y == YOf(g, k)
    IN  (IF x > 0 THEN <<k - 1>> ELSE <<>>)
     \o (IF x + 1 < g.m_width THEN <<k + 1>> ELSE <<>>)
     \o (IF y > 0 THEN <<k - g.m_width>> ELSE <<>>)
     \o (IF y + 1 < g.m_height THEN <<k + g.m_width>> ELSE <<>>)

SeqRange(q) == {q[i] : i \in 1..Len(q)}

insert_valid_neighbors(g, k) == SeqRange(for_valid_neighbors(g, k))

insert_valid_unknown_neighbors(g, k) ==
    {n \in SeqRange(for_valid_neighbors(g, k)) : g.cell[n] = UNKNOWN}

\* Region predicates
white(r) == r.m_state = WHITE
black(r) == r.m_state = BLACK
numbered(r) == r.m_state > 0
number(r) == r.m_state
size(r) == Cardinality(r.m_coords)
unk_size(r) == Cardinality(r.m_unknowns)

\* known() with its comparison inverted: the cells still UNKNOWN are counted.
known_inverted(g) == Cardinality({k \in DOMAIN g.cell : g.cell[k] = UNKNOWN})

\* Grid::known
known(g) == Cardinality({k \in DOMAIN g.cell : g.cell[k] # UNKNOWN})

\* Grid::add_region: a singleton region for cell k, bound to the cell and
\* inserted into m_regions.
add_region(g, k) ==
    LET r == [m_state |-> g.cell[k], m_coords |-> {k},
              m_unknowns |-> insert_valid_unknown_neighbors(g, k)]
    IN [g EXCEPT !.region[k] = k + 1,
                 !.m_regions = (k + 1 :> r) @@ g.m_regions]

\* The secondary region r2 taken into the primary region r1, for the
\* variants of fuse_regions below; the cells of r2 are bound to r1 if rebind.
absorb(g, r1, r2, rebind) ==
    LET p1 == g.m_regions[r1]
        p2 == g.m_regions[r2]
        fused == [p1 EXCEPT !.m_coords = @ \cup p2.m_coords,
                            !.m_unknowns = @ \cup p2.m_unknowns]
    IN [g EXCEPT
          !.region = [k \in DOMAIN g.region |->
                        IF rebind /\ k \in p2.m_coords THEN r1 ELSE g.region[k]],
          !.m_regions = [id \in (DOMAIN g.m_regions) \ {r2} |->
                           IF id = r1 THEN fused ELSE g.m_regions[id]]]

\* The primary and the secondary region fuse_regions picks.
primary_first(g, a, b) ==
    LET bigger == IF size(g.m_regions[b]) > size(g.m_regions[a])
                  THEN <<b, a>> ELSE <<a, b>>
    IN IF numbered(g.m_regions[bigger[2]]) THEN <<bigger[2], bigger[1]>> ELSE bigger

\* fuse_regions without its test for two numbered regions: the attempt
\* goes unnoticed.
fuse_regions_silent(g, a, b) ==
    IF a = 0 \/ b = 0 \/ a = b THEN g
    ELSE IF numbered(g.m_regions[a]) /\ numbered(g.m_regions[b]) THEN g
    ELSE IF black(g.m_regions[a]) # black(g.m_regions[b]) THEN g
    ELSE absorb(g, primary_first(g, a, b)[1], primary_first(g, a, b)[2], TRUE)

\* fuse_regions without the loop that points the secondary region's cells
\* to the primary region.
fuse_regions_unbound(g, a, b) ==
    IF a = 0 \/ b = 0 \/ a = b THEN g
    ELSE IF numbered(g.m_regions[a]) /\ numbered(g.m_regions[b])
    THEN [g EXCEPT !.m_sitrep = CONTRADICTION_FOUND]
    ELSE IF black(g.m_regions[a]) # black(g.m_regions[b]) THEN g
    ELSE absorb(g, primary_first(g, a, b)[1], primary_first(g, a, b)[2], FALSE)

\* fuse_regions without its second swap: the bigger region is the primary
\* region even if the other one is numbered.
fuse_regions_bigger(g, a, b) ==
    IF a = 0 \/ b = 0 \/ a = b THEN g
    ELSE IF numbered(g.m_regions[a]) /\ numbered(g.m_regions[b])
    THEN [g EXCEPT !.m_sitrep = CONTRADICTION_FOUND]
    ELSE IF black(g.m_regions[a]) # black(g.m_regions[b]) THEN g
    ELSE IF size(g.m_regions[b]) > size(g.m_regions[a]) THEN absorb(g, b, a, TRUE)
    ELSE absorb(g, a, b, TRUE)

\* Grid::fuse_regions on two region handles.
fuse_regions(g, a, b) ==
    IF a = 0 \/ b = 0 \/ a = b THEN g
    ELSE LET ra == g.m_regions[a]
             rb == g.m_regions[b]
         IN IF numbered(ra) /\ numbered(rb)
            THEN [g EXCEPT !.m_sitrep = CONTRADICTION_FOUND]
            ELSE IF black(ra) # black(rb) THEN g
            ELSE LET bigger == IF size(rb) > size(ra) THEN <<b, a>> ELSE <<a, b>>
                     pair == IF numbered(g.m_regions[bigger[2]])
                             THEN <<bigger[2], bigger[1]>> ELSE bigger
                     r1 == pair[1]
                     r2 == pair[2]
                     p1 == g.m_regions[r1]
                     p2 == g.m_regions[r2]
                     fused == [p1 EXCEPT !.m_coords = @ \cup p2.m_coords,
                                         !.m_unknowns = @ \cup p2.m_unknowns]
                 IN [g EXCEPT
                       !.region = [k \in DOMAIN g.region |->
                                     IF k \in p2.m_coords THEN r1 ELSE g.region[k]],
                       !.m_regions = [id \in (DOMAIN g.m_regions) \ {r2} |->
                                        IF id = r1 THEN fused ELSE g.m_regions[id]]]

\* The loop over the neighbours left after the first of them.
FuseNeighbors_first(g, k, nbrs) ==
    IF nbrs = <<>> THEN g
    ELSE fuse_regions(g, g.region[k], g.region[Head(nbrs)])

RECURSIVE FuseNeighbors(_, _, _)
FuseNeighbors(g, k, nbrs) ==
    IF nbrs = <<>> THEN g
    ELSE FuseNeighbors(fuse_regions(g, g.region[k], g.region[Head(nbrs)]),
                       k, Tail(nbrs))

\* mark with the early return for a known cell, but without the
\* assignment to m_sitrep before it.
mark_quiet(g, s, k) ==
    IF g.cell[k] # UNKNOWN THEN g
    ELSE FuseNeighbors(add_region([g EXCEPT !.cell[k] = s,
                                     !.m_regions = [id \in DOMAIN g.m_regions |->
                                         [g.m_regions[id] EXCEPT !.m_unknowns = @ \ {k}]]],
                                  k), k, for_valid_neighbors(g, k))

\* Grid::mark
mark(g, s, k) ==
    IF g.cell[k] # UNKNOWN THEN [g EXCEPT !.m_sitrep = CONTRADICTION_FOUND]
    ELSE LET g1 == [g EXCEPT !.cell[k] = s,
                             !.m_regions = [id \in DOMAIN g.m_regions |->
                                  [g.m_regions[id] EXCEPT !.m_unknowns = @ \ {k}]]]
         IN FuseNeighbors(add_region(g1, k), k, for_valid_neighbors(g, k))

\* ------------------------------------------------------------------------
\* Grid::Grid(width, height, s)
\* ------------------------------------------------------------------------
EmptyRegions == [id \in {} |-> 0]

BlankGrid(width, height) ==
    [m_width |-> width, m_height |-> height, m_total_black |-> width * height,
     cell |-> [k \in 0..(width * height - 1) |-> UNKNOWN],
     region |-> [k \in 0..(width * height - 1) |-> 0],
     m_regions |-> EmptyRegions,
     m_sitrep |-> KEEP_GOING]

\* The body of the loop "for x ... for y ..." of the constructor for the
\* i-th cell of that (x-major) order; c.err is set, and the loop left, when
\* a clue sits below another clue.
\* The adjacency test looking at the cell below, which the loop has not
\* filled in yet, instead of the cell above.
PlaceClue_below(c, v, i) ==
    LET g == c.g
        x == i \div g.m_height
        y == i % g.m_height
        n == v[x + y * g.m_width + 1]
    IN IF c.err # "none" \/ n <= 0 THEN c
       ELSE IF valid(g, x, y + 1) /\ g.cell[Idx(g, x, y + 1)] > 0
       THEN [err |-> "vertically_adjacent", g |-> g]
       ELSE [err |-> "none",
             g |-> [add_region([g EXCEPT !.cell[Idx(g, x, y)] = n], Idx(g, x, y))
                      EXCEPT !.m_total_black = @ - n]]

\* The loop body without "m_total_black -= n".
PlaceClue_uncounted(c, v, i) ==
    LET g == c.g
        x == i \div g.m_height
        y == i % g.m_height
        n == v[x + y * g.m_width + 1]
    IN IF c.err # "none" \/ n <= 0 THEN c
       ELSE IF valid(g, x, y - 1) /\ g.cell[Idx(g, x, y - 1)] > 0
       THEN [err |-> "vertically_adjacent", g |-> g]
       ELSE [err |-> "none",
             g |-> add_region([g EXCEPT !.cell[Idx(g, x, y)] = n], Idx(g, x, y))]

\* The loop body with "n >= 0" for "n > 0": a space of the string becomes
\* a clue.
PlaceClue_zero(c, v, i) ==
    LET g == c.g
        x == i \div g.m_height
        y == i % g.m_height
        n == v[x + y * g.m_width + 1]
    IN IF c.err # "none" \/ n < 0 THEN c
       ELSE IF valid(g, x, y - 1) /\ g.cell[Idx(g, x, y - 1)] > 0
       THEN [err |-> "vertically_adjacent", g |-> g]
       ELSE [err |-> "none",
             g |-> [add_region([g EXCEPT !.cell[Idx(g, x, y)] = n], Idx(g, x, y))
                      EXCEPT !.m_total_black = @ - n]]

PlaceClue(c, v, i) ==
    LET g == c.g
        x == i \div g.m_height
        y == i % g.m_height
        n == v[x + y * g.m_width + 1]
    IN IF c.err # "none" \/ n <= 0 THEN c
       ELSE IF valid(g, x, y - 1) /\ g.cell[Idx(g, x, y - 1)] > 0
       THEN [err |-> "vertically_adjacent", g |-> g]
       ELSE [err |-> "none",
             g |-> [add_region([g EXCEPT !.cell[Idx(g, x, y)] = n], Idx(g, x, y))
                      EXCEPT !.m_total_black = @ - n]]

\* The loop over the cells lo..hi of the x-major order (split in halves, so
\* that the evaluation nests only logarithmically deep).
RECURSIVE PlaceClues(_, _, _, _)
PlaceClues(c, v, lo, hi) ==
    IF lo > hi THEN c
    ELSE IF lo = hi THEN PlaceClue(c, v, lo)
    ELSE LET mid == (lo + hi) \div 2
             left == PlaceClues(c, v, lo, mid)
         IN IF left.err # "none" THEN left ELSE PlaceClues(left, v, mid + 1, hi)

NoGrid == [m_width |-> 0, m_height |-> 0, m_total_black |-> 0,
           cell |-> [k \in {} |-> UNKNOWN], region |-> [k \in {} |-> 0],
           m_regions |-> EmptyRegions, m_sitrep |-> KEEP_GOING]

\* The end of the constructor: an exception of the clue loop leaves no grid.
CtorPlaced(c) == IF c.err # "none" THEN [err |-> c.err, g |-> NoGrid] ELSE c

\* The constructor after the parse p of the string.
CtorParsed(width, height, p) ==
    IF p.err # "none" THEN [err |-> p.err, g |-> NoGrid]
    ELSE IF Len(p.v) # width * height THEN [err |-> "count", g |-> NoGrid]
    ELSE CtorPlaced(PlaceClues([err |-> "none", g |-> BlankGrid(width, height)],
                               p.v, 0, width * height - 1))

\* The outcome of the constructor: the exception thrown ("none" when the
\* grid is constructed) and the grid.
GridCtor(width, height, s) ==
    IF width < 1 THEN [err |-> "width", g |-> NoGrid]
    ELSE IF height < 1 THEN [err |-> "height", g |-> NoGrid]
    ELSE CtorParsed(width, height, Parse(s))

\* ------------------------------------------------------------------------
\* Grid::process: mark the cells of mark_as_black, then those of
\* mark_as_white, each set in the order of set<pair<int, int>> (x, then y).
\* ------------------------------------------------------------------------
PairKey(g, k) == XOf(g, k) * g.m_height + YOf(g, k)

FirstCoord(g, S) == CHOOSE k \in S : \A j \in S : PairKey(g, k) <= PairKey(g, j)

\* The elements of a set<pair<int, int>> in the order of its iteration.
InOrder(g, S) ==
    [n \in 1..Cardinality(S) |->
        CHOOSE k \in S : Cardinality({j \in S : PairKey(g, j) <= PairKey(g, k)}) = n]

\* mark(s, ...) for the cells q[lo..hi] in turn (the range split in halves).
RECURSIVE MarkRange(_, _, _, _, _)
MarkRange(g, s, q, lo, hi) ==
    IF lo > hi THEN g
    ELSE IF lo = hi THEN mark(g, s, q[lo])
    ELSE LET mid == (lo + hi) \div 2
         IN MarkRange(MarkRange(g, s, q, lo, mid), s, q, mid + 1, hi)

MarkAll(g, s, S) == MarkRange(g, s, InOrder(g, S), 1, Cardinality(S))

\* process() without its test for two empty sets.
process_always(g, mark_as_black, mark_as_white) ==
    [changed |-> TRUE,
     g |-> MarkAll(MarkAll(g, BLACK, mark_as_black), WHITE, mark_as_white)]

process(g, mark_as_black, mark_as_white) ==
    IF mark_as_black = {} /\ mark_as_white = {}
    THEN [changed |-> FALSE, g |-> g]
    ELSE [changed |-> TRUE,
          g |-> MarkAll(MarkAll(g, BLACK, mark_as_black), WHITE, mark_as_white)]

Regions(g) == DOMAIN g.m_regions

\* ------------------------------------------------------------------------
\* Grid::impossibly_big_white_region and Grid::unreachable
\* ------------------------------------------------------------------------
\* The test with "<" for "<=": a white region that would exactly complete
\* an island is taken to be too big for it.
impossibly_big_white_region_strict(g, n) ==
    \A id \in Regions(g) :
        ~(numbered(g.m_regions[id])
          /\ size(g.m_regions[id]) + n + 1 < number(g.m_regions[id]))

impossibly_big_white_region(g, n) ==
    \A id \in Regions(g) :
        ~(numbered(g.m_regions[id])
          /\ size(g.m_regions[id]) + n + 1 <= number(g.m_regions[id]))

RECURSIVE SumSizes(_, _)
SumSizes(g, ids) ==
    IF ids = {} THEN 0
    ELSE LET id == CHOOSE i \in ids : TRUE
         IN size(g.m_regions[id]) + SumSizes(g, ids \ {id})

\* The second for_valid_neighbors of the loop body: push the unknown,
\* undiscovered neighbours; st is the pair <<queue, discovered>>.
RECURSIVE PushNeighbors(_, _, _, _)
PushNeighbors(g, st, nbrs, n) ==
    IF nbrs = <<>> THEN st
    ELSE LET m == Head(nbrs)
         IN IF g.cell[m] = UNKNOWN /\ m \notin st[2]
            THEN PushNeighbors(g, <<Append(st[1], <<m, n>>), st[2] \cup {m}>>,
                               Tail(nbrs), n)
            ELSE PushNeighbors(g, st, Tail(nbrs), n)

\* The loop body with "<" for "<=": a cell that would exactly complete the
\* island beside it is passed over.
UnreachableStep_strict(g, st) ==
    IF st.q = <<>> THEN [st EXCEPT !.res = "unreachable"]
    ELSE LET curr == Head(st.q)[1]
             n_curr == Head(st.q)[2]
             nbrs == for_valid_neighbors(g, curr)
             adj == {g.region[m] : m \in SeqRange(nbrs)} \ {0}
             white_regions == {id \in adj : white(g.m_regions[id])}
             numbered_regions == {id \in adj : numbered(g.m_regions[id])}
             sz == SumSizes(g, white_regions) + SumSizes(g, numbered_regions)
             skip == [st EXCEPT !.q = Tail(st.q)]
         IN IF Cardinality(numbered_regions) > 1 THEN skip
            ELSE IF Cardinality(numbered_regions) = 1
            THEN LET num == number(g.m_regions[CHOOSE id \in numbered_regions : TRUE])
                 IN IF n_curr + sz < num THEN [st EXCEPT !.res = "reachable"] ELSE skip
            ELSE IF white_regions # {}
            THEN IF impossibly_big_white_region(g, n_curr + sz)
                 THEN skip
                 ELSE [st EXCEPT !.res = "reachable"]
            ELSE LET pushed == PushNeighbors(g, <<Tail(st.q), st.discovered>>,
                                             nbrs, n_curr + 1)
                 IN [st EXCEPT !.q = pushed[1], !.discovered = pushed[2]]

\* One iteration of the while loop of unreachable(): st.q is the queue of
\* <<cell, depth>>, st.res becomes "reachable" (return false) or
\* "unreachable" (the queue ran empty, return true).
UnreachableStep(g, st) ==
    IF st.q = <<>> THEN [st EXCEPT !.res = "unreachable"]
    ELSE LET curr == Head(st.q)[1]
             n_curr == Head(st.q)[2]
             nbrs == for_valid_neighbors(g, curr)
             adj == {g.region[m] : m \in SeqRange(nbrs)} \ {0}
             white_regions == {id \in adj : white(g.m_regions[id])}
             numbered_regions == {id \in adj : numbered(g.m_regions[id])}
             sz == SumSizes(g, white_regions) + SumSizes(g, numbered_regions)
             skip == [st EXCEPT !.q = Tail(st.q)]
         IN IF Cardinality(numbered_regions) > 1 THEN skip
            ELSE IF Cardinality(numbered_regions) = 1
            THEN LET num == number(g.m_regions[CHOOSE id \in numbered_regions : TRUE])
                 IN IF n_curr + sz <= num THEN [st EXCEPT !.res = "reachable"] ELSE skip
            ELSE IF white_regions # {}
            THEN IF impossibly_big_white_region(g, n_curr + sz)
                 THEN skip
                 ELSE [st EXCEPT !.res = "reachable"]
            ELSE LET pushed == PushNeighbors(g, <<Tail(st.q), st.discovered>>,
                                             nbrs, n_curr + 1)
                 IN [st EXCEPT !.q = pushed[1], !.discovered = pushed[2]]

\* Up to budget iterations of the loop (split in halves, so that the
\* evaluation nests only logarithmically deep).
RECURSIVE UnreachableLoop(_, _, _)
UnreachableLoop(g, st, budget) ==
    IF st.res # "running" \/ budget = 0 THEN st
    ELSE IF budget = 1 THEN UnreachableStep(g, st)
    ELSE UnreachableLoop(g, UnreachableLoop(g, st, budget \div 2),
                         budget - budget \div 2)

\* Every cell enters the queue at most once, and one more iteration finds
\* the queue empty.
unreachable(g, root, discovered) ==
    IF g.cell[root] # UNKNOWN THEN FALSE
    ELSE UnreachableLoop(g, [q |-> <<<<root, 1>>>>,
                             discovered |-> discovered \cup {root},
                             res |-> "running"],
                         NumCells(g) + 1).res = "unreachable"

\* ------------------------------------------------------------------------
\* Deduction rules: the sets mark_as_black / mark_as_white each rule builds
\* ------------------------------------------------------------------------
UnionOf(SS) == UNION SS

\* "return process(verbose, mark_as_black, mark_as_white, ...)"
process_marks(g, m) == process(g, m.black, m.white)

\* The rule with its two sets exchanged: the liberties of a complete island
\* are whitened.
complete_islands_marks_white(g) ==
    [black |-> {},
     white |-> UnionOf({g.m_regions[id].m_unknowns : id \in
                  {i \in Regions(g) : numbered(g.m_regions[i])
                       /\ size(g.m_regions[i]) = number(g.m_regions[i])}})]

complete_islands_marks(g) ==
    [black |-> UnionOf({g.m_regions[id].m_unknowns : id \in
                  {i \in Regions(g) : numbered(g.m_regions[i])
                       /\ size(g.m_regions[i]) = number(g.m_regions[i])}}),
     white |-> {}]

analyze_complete_islands(g) == process_marks(g, complete_islands_marks(g))

partial(g, r) ==
    \/ black(r) /\ size(r) < g.m_total_black
    \/ white(r)
    \/ numbered(r) /\ size(r) < number(r)

single_liberties_marks(g) ==
    LET single == {id \in Regions(g) :
                     partial(g, g.m_regions[id]) /\ unk_size(g.m_regions[id]) = 1}
    IN [black |-> UnionOf({g.m_regions[id].m_unknowns :
                             id \in {i \in single : black(g.m_regions[i])}}),
        white |-> UnionOf({g.m_regions[id].m_unknowns :
                             id \in {i \in single : ~black(g.m_regions[i])}})]

analyze_single_liberties(g) == process_marks(g, single_liberties_marks(g))

Abs(n) == IF n < 0 THEN -n ELSE n

\* The far corner analyze_dual_liberties picks for region r, as a set
\* (empty when the rule does not apply to r).
dual_liberty_corner(g, r) ==
    IF numbered(r) /\ size(r) = number(r) - 1 /\ unk_size(r) = 2
    THEN LET u1 == FirstCoord(g, r.m_unknowns)
             u2 == CHOOSE u \in r.m_unknowns : u # u1
             x1 == XOf(g, u1)
             y1 == YOf(g, u1)
             x2 == XOf(g, u2)
             y2 == YOf(g, u2)
         IN IF Abs(x1 - x2) = 1 /\ Abs(y1 - y2) = 1
            THEN LET p == IF Idx(g, x1, y2) \in r.m_coords
                          THEN Idx(g, x2, y1) ELSE Idx(g, x1, y2)
                 IN IF g.cell[p] = UNKNOWN THEN {p} ELSE {}
            ELSE {}
    ELSE {}

dual_liberties_marks(g) ==
    [black |-> UnionOf({dual_liberty_corner(g, g.m_regions[id]) : id \in Regions(g)}),
     white |-> {}]

analyze_dual_liberties(g) == process_marks(g, dual_liberties_marks(g))

\* The double loop left at the first unreachable cell it finds.
unreachable_cells_marks_first(g) ==
    LET all == {k \in DOMAIN g.cell : unreachable(g, k, {})}
    IN [black |-> IF all = {} THEN {} ELSE {FirstCoord(g, all)}, white |-> {}]

unreachable_cells_marks(g) ==
    [black |-> {k \in DOMAIN g.cell : unreachable(g, k, {})}, white |-> {}]

analyze_unreachable_cells(g) == process_marks(g, unreachable_cells_marks(g))

\* The cells analyze_potential_pools whitens in the 2x2 square at (x, y).
pool_square_marks(g, x, y) ==
    LET a == {Idx(g, x, y), Idx(g, x + 1, y), Idx(g, x, y + 1), Idx(g, x + 1, y + 1)}
        unk == {k \in a : g.cell[k] = UNKNOWN}
        blk == {k \in a : g.cell[k] = BLACK}
    IN IF Cardinality(unk) = 1 /\ Cardinality(blk) = 3 THEN unk
       ELSE IF Cardinality(unk) = 2 /\ Cardinality(blk) = 2
       THEN {u \in unk : \E o \in unk : o # u /\ unreachable(g, o, {u})}
       ELSE {}

\* The rule with its two sets exchanged: the cells are blackened.
potential_pools_marks_black(g) ==
    [black |-> UnionOf({pool_square_marks(g, x, y) :
                          x \in 0..(g.m_width - 2), y \in 0..(g.m_height - 2)}),
     white |-> {}]

potential_pools_marks(g) ==
    [black |-> {},
     white |-> UnionOf({pool_square_marks(g, x, y) :
                          x \in 0..(g.m_width - 2), y \in 0..(g.m_height - 2)})]

analyze_potential_pools(g) == process_marks(g, potential_pools_marks(g))

\* ------------------------------------------------------------------------
\* Grid::confined
\* ------------------------------------------------------------------------
NONE == 0
OPEN == 1
CLOSED == 2
VERBOTEN == 3

\* find(flags.begin(), flags.end(), OPEN): the first open index, or -1.
FindOpen(flags) ==
    LET open == {k \in DOMAIN flags : flags[k] = OPEN}
    IN IF open = {} THEN -1 ELSE CHOOSE k \in open : \A j \in open : k <= j

\* Still needs to consume more cells (the while condition and the return).
needs_more(g, r, closed_size) ==
    \/ black(r) /\ closed_size < g.m_total_black
    \/ white(r)
    \/ numbered(r) /\ closed_size < number(r)

\* What the loop body decides for the popped cell p: "consume", "discard",
\* "escaped" (return false) or "fatal" (the logic_error).
consider(g, rid, p) ==
    LET r == g.m_regions[rid]
        area == g.region[p]
    IN IF black(r)
       THEN IF area = 0 THEN "consume"
            ELSE IF black(g.m_regions[area]) THEN "consume"
            ELSE "discard"
       ELSE IF white(r)
       THEN IF area = 0 THEN "consume"
            ELSE IF black(g.m_regions[area]) THEN "discard"
            ELSE IF white(g.m_regions[area]) THEN "consume"
            ELSE "escaped"
       ELSE IF area = 0
            THEN IF \E m \in SeqRange(for_valid_neighbors(g, p)) :
                       /\ g.region[m] # 0
                       /\ numbered(g.m_regions[g.region[m]])
                       /\ g.region[m] # rid
                 THEN "discard" ELSE "consume"
            ELSE IF black(g.m_regions[area]) THEN "discard"
            ELSE IF white(g.m_regions[area]) THEN "consume"
            ELSE "fatal"

\* One iteration of the while loop of confined().  st.res becomes "free"
\* (return false), "confined" (return true) or "fatal" (the logic_error);
\* st.consumed collects the unknown cells consumed (what a run without
\* verboten cells writes to cache[r]).
ConfinedStep(g, rid, st) ==
    LET r == g.m_regions[rid]
        flags == st.flags
        p == FindOpen(flags)
        verdict == consider(g, rid, p)
        area == g.region[p]
    IN IF ~needs_more(g, r, st.closed_size) THEN [st EXCEPT !.res = "free"]
       ELSE IF p < 0 THEN [st EXCEPT !.res = "confined"]
       ELSE IF verdict = "discard" THEN [st EXCEPT !.flags[p] = NONE]
       ELSE IF verdict = "escaped" THEN [st EXCEPT !.res = "free"]
       ELSE IF verdict = "fatal" THEN [st EXCEPT !.res = "fatal"]
       ELSE IF area = 0
       THEN LET nb == SeqRange(for_valid_neighbors(g, p))
            IN [st EXCEPT !.flags = [k \in DOMAIN flags |->
                                       IF k = p THEN CLOSED
                                       ELSE IF k \in nb /\ flags[k] = NONE THEN OPEN
                                       ELSE flags[k]],
                          !.closed_size = @ + 1,
                          !.consumed = @ \cup {p}]
       ELSE LET a == g.m_regions[area]
            IN [st EXCEPT !.flags = [k \in DOMAIN flags |->
                                       IF k \in a.m_coords THEN CLOSED
                                       ELSE IF k = p THEN NONE
                                       ELSE IF k \in a.m_unknowns /\ flags[k] = NONE THEN OPEN
                                       ELSE flags[k]],
                          !.closed_size = @ + size(a)]

\* Up to budget iterations of the loop (split in halves, so that the
\* evaluation nests only logarithmically deep).
RECURSIVE ConfinedLoop(_, _, _, _)
ConfinedLoop(g, rid, st, budget) ==
    IF st.res # "running" \/ budget = 0 THEN st
    ELSE IF budget = 1 THEN ConfinedStep(g, rid, st)
    ELSE ConfinedLoop(g, rid, ConfinedLoop(g, rid, st, budget \div 2),
                      budget - budget \div 2)

\* The flags before the loop: unknowns OPEN, then coords CLOSED, then the
\* verboten cells VERBOTEN.
InitialFlags(g, r, verboten) ==
    [k \in DOMAIN g.cell |->
       IF k \in verboten THEN VERBOTEN
       ELSE IF k \in r.m_coords THEN CLOSED
       ELSE IF k \in r.m_unknowns THEN OPEN
       ELSE NONE]

\* confined(r, cache, verboten): res is "confined", "free" or "fatal" (the
\* logic_error thrown); consumed is what the run adds to cache[r].  An
\* iteration either closes a cell or discards an open one, and a closed cell
\* opens at most its four neighbours, so 8 * cells + 8 iterations suffice.
confined(g, rid, cache, verboten) ==
    IF verboten # {} /\ rid \notin DOMAIN cache
    THEN [res |-> "free", consumed |-> {}]
    ELSE IF verboten # {} /\ cache[rid] \cap verboten = {}
    THEN [res |-> "free", consumed |-> {}]
    ELSE LET r == g.m_regions[rid]
             run == ConfinedLoop(g, rid,
                                 [res |-> "running", flags |-> InitialFlags(g, r, verboten),
                                  closed_size |-> size(r), consumed |-> {}],
                                 8 * NumCells(g) + 8)
         IN [res |-> run.res, consumed |-> IF verboten = {} THEN run.consumed ELSE {}]

\* ------------------------------------------------------------------------
\* Grid::detect_contradictions
\* ------------------------------------------------------------------------
\* The pool scan with its loop bounds one too small: no square is examined
\* on a grid of two rows or two columns.
HasPool_short(g) ==
    \E x \in 0..(g.m_width - 3), y \in 0..(g.m_height - 3) :
        /\ g.cell[Idx(g, x, y)] = BLACK
        /\ g.cell[Idx(g, x + 1, y)] = BLACK
        /\ g.cell[Idx(g, x, y + 1)] = BLACK
        /\ g.cell[Idx(g, x + 1, y + 1)] = BLACK

HasPool(g) ==
    \E x \in 0..(g.m_width - 2), y \in 0..(g.m_height - 2) :
        /\ g.cell[Idx(g, x, y)] = BLACK
        /\ g.cell[Idx(g, x + 1, y)] = BLACK
        /\ g.cell[Idx(g, x, y + 1)] = BLACK
        /\ g.cell[Idx(g, x + 1, y + 1)] = BLACK

gigantic(g, r) ==
    \/ white(r) /\ impossibly_big_white_region(g, size(r))
    \/ numbered(r) /\ size(r) > number(r)

EmptyCache == [id \in {} |-> {}]

\* What the loop over m_regions finds for each region: "gigantic", or the
\* result of confined(r, cache).
region_runs(g) ==
    [id \in Regions(g) |->
        IF gigantic(g, g.m_regions[id])
        THEN [res |-> "gigantic", consumed |-> {}]
        ELSE confined(g, id, EmptyCache, {})]

\* The loop over m_regions with a cache that is never written.
detect_from_uncached(g, runs) ==
    LET stops == {id \in Regions(g) : runs[id].res \in {"gigantic", "confined"}}
        throws == {id \in Regions(g) : runs[id].res = "fatal"}
        black_cells == SumSizes(g, {id \in Regions(g) : black(g.m_regions[id])})
        white_cells == SumSizes(g, {id \in Regions(g) : ~black(g.m_regions[id])})
    IN IF stops # {} \/ throws # {}
       THEN [results |-> (IF stops # {} THEN {"contradiction"} ELSE {})
                         \cup (IF throws # {} THEN {"fatal"} ELSE {}),
             cache |-> EmptyCache]
       ELSE IF black_cells > g.m_total_black
               \/ white_cells > g.m_width * g.m_height - g.m_total_black
       THEN [results |-> {"contradiction"}, cache |-> EmptyCache]
       ELSE [results |-> {"none"}, cache |-> EmptyCache]

\* The loop over m_regions and the two counts, given the runs.
detect_from(g, runs) ==
    LET stops == {id \in Regions(g) : runs[id].res \in {"gigantic", "confined"}}
        throws == {id \in Regions(g) : runs[id].res = "fatal"}
        black_cells == SumSizes(g, {id \in Regions(g) : black(g.m_regions[id])})
        white_cells == SumSizes(g, {id \in Regions(g) : ~black(g.m_regions[id])})
        cache == [id \in {i \in Regions(g) : runs[i].consumed # {}} |->
                    runs[id].consumed]
    IN IF stops # {} \/ throws # {}
       THEN [results |-> (IF stops # {} THEN {"contradiction"} ELSE {})
                         \cup (IF throws # {} THEN {"fatal"} ELSE {}),
             cache |-> cache]
       ELSE IF black_cells > g.m_total_black
               \/ white_cells > g.m_width * g.m_height - g.m_total_black
       THEN [results |-> {"contradiction"}, cache |-> cache]
       ELSE [results |-> {"none"}, cache |-> cache]

\* The possible results of detect_contradictions.  m_regions is ordered by
\* the addresses of the region objects, so the loop over it may meet the
\* regions in any order: "contradiction" (uh_oh), "fatal" (confined threw)
\* or "none", with the cache a complete pass leaves behind.
detect_contradictions(g) ==
    IF HasPool(g) THEN [results |-> {"contradiction"}, cache |-> EmptyCache]
    ELSE detect_from(g, region_runs(g))

\* ------------------------------------------------------------------------
\* Grid::analyze_confinement: the mark sets, and whether a confined() call
\* threw.
\* ------------------------------------------------------------------------
unknown_cells(g) == {k \in DOMAIN g.cell : g.cell[k] = UNKNOWN}

partial_islands(g) ==
    {id \in Regions(g) : numbered(g.m_regions[id])
                          /\ size(g.m_regions[id]) < number(g.m_regions[id])}

\* The first double loop: confined(*i, cache, {(x, y)}) for every unknown
\* cell and every region.
single_cell_runs(g, cache) ==
    [k \in unknown_cells(g) |->
        [id \in Regions(g) |-> confined(g, id, cache, {k}).res]]

\* The second loop: for every liberty u of a partial island, confined() of
\* every other numbered region with u and its unknown neighbours verboten.
liberty_runs(g, cache) ==
    [id \in partial_islands(g) |-> [u \in g.m_regions[id].m_unknowns |->
        [o \in {j \in Regions(g) : j # id /\ numbered(g.m_regions[j])} |->
            confined(g, o, cache, {u} \cup insert_valid_unknown_neighbors(g, u)).res]]]

confinement_marks_from(g, first, second) ==
    [black |-> {k \in DOMAIN first : \E id \in Regions(g) :
                   first[k][id] = "confined" /\ black(g.m_regions[id])}
              \cup {u \in DOMAIN g.cell : \E id \in DOMAIN second :
                      /\ u \in DOMAIN second[id]
                      /\ \E o \in DOMAIN second[id][u] : second[id][u][o] = "confined"},
     white |-> {k \in DOMAIN first : \E id \in Regions(g) :
                   first[k][id] = "confined" /\ ~black(g.m_regions[id])},
     fatal |-> \/ \E k \in DOMAIN first : \E id \in Regions(g) : first[k][id] = "fatal"
               \/ \E id \in DOMAIN second : \E u \in DOMAIN second[id] :
                    \E o \in DOMAIN second[id][u] : second[id][u][o] = "fatal"]

confinement_marks(g, cache) ==
    confinement_marks_from(g, single_cell_runs(g, cache), liberty_runs(g, cache))

\* ------------------------------------------------------------------------
\* Grid::solve
\* ------------------------------------------------------------------------
LOGIC_ERROR == "LOGIC_ERROR"
STUMPED == "STUMPED"

\* analyze_complete_islands || ... || analyze_potential_pools: the first
\* rule that succeeds ends the chain.
or_else(r, rest) == IF r.changed THEN r ELSE rest

rule_stages(g) ==
    or_else(analyze_complete_islands(g),
    or_else(analyze_single_liberties(g),
    or_else(analyze_dual_liberties(g),
    or_else(analyze_unreachable_cells(g),
            analyze_potential_pools(g)))))

uh_oh(g) == [g EXCEPT !.m_sitrep = CONTRADICTION_FOUND]

\* What solve returns after a step of analysis that ran process():
\* m_sitrep if it succeeded, STUMPED ("nothing succeeded so far") if not.
stage_outcome(g, pr) ==
    IF pr.changed THEN {[g |-> pr.g, sr |-> pr.g.m_sitrep]}
    ELSE {[g |-> g, sr |-> STUMPED]}

confinement_outcome(g, cm) ==
    IF cm.fatal THEN {[g |-> g, sr |-> LOGIC_ERROR]}
    ELSE stage_outcome(g, process_marks(g, cm))

analyze_confinement(g, cache) == confinement_outcome(g, confinement_marks(g, cache))

confinement_stages_from(g, d) ==
        (IF "contradiction" \in d.results
         THEN {[g |-> uh_oh(g), sr |-> CONTRADICTION_FOUND]} ELSE {})
   \cup (IF "fatal" \in d.results THEN {[g |-> g, sr |-> LOGIC_ERROR]} ELSE {})
   \cup (IF "none" \in d.results THEN analyze_confinement(g, d.cache) ELSE {})

\* detect_contradictions || analyze_confinement, entered when no rule
\* succeeded.
confinement_stages(g) == confinement_stages_from(g, detect_contradictions(g))

\* The same branch with the black cells counted down from m_total_black
\* instead of up into a local counter.
declare_victory_countdown(g) ==
    LET d == detect_contradictions(g)
        blacks == Cardinality({k \in DOMAIN g.cell : g.cell[k] = BLACK})
        h == [g EXCEPT !.m_total_black = @ - blacks]
    IN {[g |-> IF res = "contradiction" THEN uh_oh(h) ELSE h,
         sr |-> CASE res = "contradiction" -> CONTRADICTION_FOUND
                  [] res = "fatal" -> LOGIC_ERROR
                  [] OTHER -> SOLUTION_FOUND] : res \in d.results}

\* "See if we're done": the branch of solve() for a grid without unknown
\* cells, CONTRADICTION_FOUND or SOLUTION_FOUND.
declare_victory(g) ==
    LET d == detect_contradictions(g)
    IN {[g |-> IF res = "contradiction" THEN uh_oh(g) ELSE g,
         sr |-> CASE res = "contradiction" -> CONTRADICTION_FOUND
                  [] res = "fatal" -> LOGIC_ERROR
                  [] OTHER -> SOLUTION_FOUND] : res \in d.results}

rules_outcome(g, r) ==
    IF r.changed THEN {[g |-> r.g, sr |-> r.g.m_sitrep]}
    ELSE confinement_stages(g)

\* solve() up to, and without, "guessing && analyze_hypotheticals".
solve_stages(g) ==
    IF known(g) = g.m_width * g.m_height
    THEN declare_victory(g)
    ELSE rules_outcome(g, rule_stages(g))

\* solve(verbose, false)
solve_without_guessing(g) ==
    {[g |-> o.g, sr |-> IF o.sr = STUMPED THEN CANNOT_PROCEED ELSE o.sr] :
        o \in solve_stages(g)}

\* ------------------------------------------------------------------------
\* Grid::Grid(const Grid&) and Grid::analyze_hypotheticals
\* ------------------------------------------------------------------------
\* Grid::Grid(const Grid&) at the level of the region objects.  m_cells is
\* copied with the handles of the other grid ("this" below names an object
\* of the grid that is copied); every region is copied into a new object
\* ("copy"); the second loop points every cell of every copied region to
\* the new object.  The copy constructor without the second loop comes
\* first.
copied_handles_unbound(g) ==
    [k \in DOMAIN g.region |->
        IF g.region[k] = 0 THEN <<"null", 0>> ELSE <<"this", g.region[k]>>]

copied_handles(g) ==
    [k \in DOMAIN g.region |->
        IF \E id \in Regions(g) : k \in g.m_regions[id].m_coords
        THEN <<"copy", CHOOSE id \in Regions(g) : k \in g.m_regions[id].m_coords>>
        ELSE IF g.region[k] = 0 THEN <<"null", 0>>
        ELSE <<"this", g.region[k]>>]

\* The copy: the cells (with the other grid's handles) are copied, every
\* region is copied, and every cell of a copied region is bound to the copy.
CopyGrid(other) ==
    [other EXCEPT !.region = [k \in DOMAIN other.region |->
        IF \E id \in Regions(other) : k \in other.m_regions[id].m_coords
        THEN CHOOSE id \in Regions(other) : k \in other.m_regions[id].m_coords
        ELSE other.region[k]]]

\* "while (sr == KEEP_GOING) sr = other.solve(false, false)": the final
\* statuses, with the number of calls made and whether every call that
\* returned KEEP_GOING had increased known().
RECURSIVE TrialLoop(_, _, _)
TrialLoop(other, n, mono) ==
    UNION {IF o.sr = KEEP_GOING
           THEN TrialLoop(o.g, n + 1, mono /\ known(o.g) > known(other))
           ELSE {[sr |-> o.sr, calls |-> n + 1, mono |-> mono,
                  cells |-> NumCells(other)]}
           : o \in solve_without_guessing(other)}

Trial(g, color, k) == TrialLoop(mark(CopyGrid(g), color, k), 0, TRUE)

\* The distance guessing_order sorts by.
manhattan(g, k) ==
    LET whites == {c \in DOMAIN g.cell : g.cell[c] = WHITE}
        ds == {Abs(XOf(g, k) - XOf(g, c)) + Abs(YOf(g, k) - YOf(g, c)) : c \in whites}
    IN IF ds = {} THEN g.m_width + g.m_height
       ELSE CHOOSE d \in ds : \A e \in ds : d <= e

statuses(T) == {t.sr : t \in T}

\* The decisions with the "sr == SOLUTION_FOUND" branch missing: only a
\* contradiction is conclusive.
contradiction_only_outcome(tb, tw) ==
    [does |-> (IF CONTRADICTION_FOUND \in statuses(tb) THEN {"white"} ELSE {})
         \cup (IF CONTRADICTION_FOUND \in statuses(tw) THEN {"black"} ELSE {})
         \cup (IF LOGIC_ERROR \in statuses(tb \cup tw) THEN {"fatal"} ELSE {})
         \cup (IF {CANNOT_PROCEED, SOLUTION_FOUND} \cap statuses(tw) # {}
               THEN {"failed"} ELSE {}),
     loops |-> tb \cup tw]

contradiction_only_second(g, k, tb) ==
    contradiction_only_outcome(tb,
        IF {CANNOT_PROCEED, SOLUTION_FOUND} \cap statuses(tb) # {}
        THEN Trial(g, WHITE, k) ELSE {})

guess_contradiction_only(g, k) ==
    contradiction_only_second(g, k, Trial(g, BLACK, k))

\* What analyze_hypotheticals can do with a guessed cell, given the trial
\* loops tb of the black and tw of the white guess ("black"/"white": mark
\* it and return; "fatal": a trial threw; "failed": both trials ended in
\* CANNOT_PROCEED), and the trial loops run.
guess_outcome(tb, tw) ==
    [does |-> (IF CONTRADICTION_FOUND \in statuses(tb) THEN {"white"} ELSE {})
         \cup (IF SOLUTION_FOUND \in statuses(tb) THEN {"black"} ELSE {})
         \cup (IF CONTRADICTION_FOUND \in statuses(tw) THEN {"black"} ELSE {})
         \cup (IF SOLUTION_FOUND \in statuses(tw) THEN {"white"} ELSE {})
         \cup (IF LOGIC_ERROR \in statuses(tb \cup tw) THEN {"fatal"} ELSE {})
         \cup (IF CANNOT_PROCEED \in statuses(tw) THEN {"failed"} ELSE {}),
     loops |-> tb \cup tw]

\* The second trial is run if the first ended in CANNOT_PROCEED.
guess_second(g, k, tb) ==
    guess_outcome(tb, IF CANNOT_PROCEED \in statuses(tb)
                      THEN Trial(g, WHITE, k) ELSE {})

\* The two trials of one guessed cell.
guess(g, k) == guess_second(g, k, Trial(g, BLACK, k))

\* guessing_order() shuffles the unknown cells with m_prng and stable-sorts
\* them by manhattan(): cells are guessed by ascending distance, cells of
\* equal distance in an order the library's random_shuffle decides.
\* HypotheticalsFrom walks the distances D in ascending order and collects
\* what some such order does: acc.does are the possible first conclusive
\* guesses <<cell, outcome>>, acc.loops the trial loops run.
RECURSIVE HypotheticalsFrom(_, _, _)

\* The cells of distance d, with the outcome of guessing each.
class_guesses(g, d) ==
    [k \in {c \in unknown_cells(g) : manhattan(g, c) = d} |-> guess(g, k)]

HypotheticalsStep(g, D, d, acc, gs) ==
    LET next == [does |-> acc.does \cup
                    UnionOf({{<<k, o>> : o \in gs[k].does \ {"failed"}} : k \in DOMAIN gs}),
                 loops |-> acc.loops \cup UnionOf({gs[k].loops : k \in DOMAIN gs})]
    IN IF \E k \in DOMAIN gs : "failed" \notin gs[k].does
       THEN next
       ELSE HypotheticalsFrom(g, D \ {d}, next)

HypotheticalsAt(g, D, d, acc) == HypotheticalsStep(g, D, d, acc, class_guesses(g, d))

HypotheticalsFrom(g, D, acc) ==
    IF D = {} THEN [does |-> acc.does \cup {<<-1, "failed">>}, loops |-> acc.loops]
    ELSE HypotheticalsAt(g, D, CHOOSE e \in D : \A f \in D : e <= f, acc)

analyze_hypotheticals(g) ==
    HypotheticalsFrom(g, {manhattan(g, k) : k \in unknown_cells(g)},
                      [does |-> {}, loops |-> {}])

\* The end of analyze_hypotheticals and of solve, given what the guesses h
\* can do: the guessed cell is marked through process().
solve_guessed(g, h) ==
    {CASE c[2] = "failed" -> [g |-> g, sr |-> CANNOT_PROCEED, loops |-> h.loops]
       [] c[2] = "fatal" -> [g |-> g, sr |-> LOGIC_ERROR, loops |-> h.loops]
       [] OTHER -> [g |-> c[3].g, sr |-> c[3].g.m_sitrep, loops |-> h.loops]
     : c \in {<<d[1], d[2],
                IF d[2] = "black" THEN process(g, {d[1]}, {})
                ELSE IF d[2] = "white" THEN process(g, {}, {d[1]})
                ELSE [changed |-> FALSE, g |-> g]>> : d \in h.does}}

\* solve with "guessing &&" left out before analyze_hypotheticals.
solve_after_guessing(g, guessing, o) ==
    IF o.sr # STUMPED THEN {[g |-> o.g, sr |-> o.sr, loops |-> {}]}
    ELSE solve_guessed(g, analyze_hypotheticals(g))

\* solve after the stages that need no guessing have given o.
solve_after(g, guessing, o) ==
    IF o.sr # STUMPED THEN {[g |-> o.g, sr |-> o.sr, loops |-> {}]}
    ELSE IF ~guessing THEN {[g |-> g, sr |-> CANNOT_PROCEED, loops |-> {}]}
    ELSE solve_guessed(g, analyze_hypotheticals(g))

\* solve(verbose, guessing): the possible outcomes, each with the grid
\* after the call, the status returned and the trial loops that were run.
solve(g, guessing) == UNION {solve_after(g, guessing, o) : o \in solve_stages(g)}

\* ------------------------------------------------------------------------
\* Inputs of the constructor
\* ------------------------------------------------------------------------
Alphabet == {"0", "1", "2", " ", "\n", "x"}

RECURSIVE StringsUpTo(_)
StringsUpTo(n) ==
    IF n = 0 THEN {<<>>}
    ELSE LET shorter == StringsUpTo(n - 1)
         IN shorter \cup {Append(t, c) : t \in {u \in shorter : Len(u) = n - 1}, c \in Alphabet}

\* Any short string with any small width and height.
ParserInputs ==
    {[width |-> w, height |-> h, s |-> t] :
        w \in 0..MaxDim, h \in 0..MaxDim, t \in StringsUpTo(MaxLen)}

DigitChar == <<"0", "1", "2", "3", "4", "5", "6", "7", "8", "9">>

RECURSIVE Decimal(_)
Decimal(n) == IF n < 10 THEN <<DigitChar[n + 1]>>
              ELSE Append(Decimal(n \div 10), DigitChar[(n % 10) + 1])

\* The string of a puzzle, written as main's table writes them: one line
\* per row, a space for an empty cell, every line ended by a newline.
RECURSIVE PuzzleString(_, _, _, _)
PuzzleString(clues, width, height, k) ==
    IF k >= width * height THEN <<>>
    ELSE (IF clues[k] = 0 THEN <<" ">> ELSE Decimal(clues[k]))
         \o (IF k % width = width - 1 THEN <<"\n">> ELSE <<>>)
         \o PuzzleString(clues, width, height, k + 1)

PuzzleSizes ==
    {<<1, 1>>, <<2, 2>>, <<3, 2>>, <<2, 3>>, <<3, 3>>, <<4, 1>>, <<2, 4>>}

\* Puzzles with at most MaxClues clues, each at most MaxClue.
PuzzleInputs ==
    UnionOf({{[width |-> wh[1], height |-> wh[2],
               s |-> PuzzleString(clues, wh[1], wh[2], 0)] :
                clues \in {c \in [0..(wh[1] * wh[2] - 1) -> 0..MaxClue] :
                             Cardinality({k \in DOMAIN c : c[k] > 0}) <= MaxClues}}
             : wh \in PuzzleSizes})

\* The 3x3 puzzle whose only clue is the 8 at its centre.
Centre8 ==
    [width |-> 3, height |-> 3,
     s |-> <<" ", " ", " ", "\n", " ", "8", " ", "\n", " ", " ", " ", "\n">>]

\* The 2x2 input "12\n34\n".
TwoRows == [width |-> 2, height |-> 2, s |-> <<"1", "2", "\n", "3", "4", "\n">>]

\* A number above INT_MAX.
TooBig ==
    [width |-> 1, height |-> 1,
     s |-> <<"2", "1", "4", "7", "4", "8", "3", "6", "4", "8">>]

\* Scenarios beside the enumerated inputs.
ScenarioInputs ==
    {[width |-> 2, height |-> 2, s |-> <<"1", "2", " ", "3", "\n", "\n">>],
     TwoRows, Centre8, TooBig,
     [width |-> 1, height |-> 1, s |-> Decimal(INT_MAX)]}

\* The first entry of main's data table, "wikipedia_hard".
WikipediaHard ==
    [width |-> 10, height |-> 9,
     s |->
          <<"2", " ", " ", " ", " ", " ", " ", " ", " ", "2", "\n">>
       \o <<" ", " ", " ", " ", " ", " ", "2", " ", " ", " ", "\n">>
       \o <<" ", "2", " ", " ", "7", " ", " ", " ", " ", " ", "\n">>
       \o <<" ", " ", " ", " ", " ", " ", " ", " ", " ", " ", "\n">>
       \o <<" ", " ", " ", " ", " ", " ", "3", " ", "3", " ", "\n">>
       \o <<" ", " ", "2", " ", " ", " ", " ", "3", " ", " ", "\n">>
       \o <<"2", " ", " ", "4", " ", " ", " ", " ", " ", " ", "\n">>
       \o <<" ", " ", " ", " ", " ", " ", " ", " ", " ", " ", "\n">>
       \o <<" ", "1", " ", " ", " ", " ", "2", " ", "4", " ", "\n">>]

Inputs == ParserInputs \cup PuzzleInputs \cup ScenarioInputs

\* ------------------------------------------------------------------------
\* The Sudoku solver (Cell.h, Grid.h, sudoku.cpp).  m_cells is a function
\* from the cell row * SIZE_GRID + col to the candidate set of the cell.
\* ------------------------------------------------------------------------
SIZE_SUBGRID == 3
SIZE_GRID == SIZE_SUBGRID * SIZE_SUBGRID
NUM_CELLS == SIZE_GRID * SIZE_GRID

Positions == 0..(NUM_CELLS - 1)
RowOf(k) == k \div SIZE_GRID
ColOf(k) == k % SIZE_GRID

\* Cell::Cell(): the candidate set {0} is an empty cell.
EmptyCell == {0}

\* Cell::operator=(int)
Cell_assign(candidates, value) == IF value # 0 THEN {value} ELSE candidates

\* Cell::solved()
Cell_solved(candidates) == Cardinality(candidates) = 1 /\ 0 \notin candidates

\* Grid::Grid()
NewCells == [k \in Positions |-> EmptyCell]

\* m_cells holds candidate sets that have been computed.  The comparison
\* makes the cells of m be computed once, here, and not again on every
\* later read of a cell.
stored(m) == IF m = m THEN m ELSE NewCells

SameRow(j, k) == RowOf(j) = RowOf(k)
SameCol(j, k) == ColOf(j) = ColOf(k)
SameSubgrid(j, k) ==
    /\ RowOf(j) \div SIZE_SUBGRID = RowOf(k) \div SIZE_SUBGRID
    /\ ColOf(j) \div SIZE_SUBGRID = ColOf(k) \div SIZE_SUBGRID

\* The cells of the row, the column and the subgrid of a cell (RCS), the
\* cell itself included.
RCS == [k \in Positions |->
          {j \in Positions : SameRow(j, k) \/ SameCol(j, k) \/ SameSubgrid(j, k)}]

\* Grid::get_solved_RCS.  The set is ordered by candidate sets (mless): it
\* keeps one cell for each candidate set, so it is a set of candidate sets.
get_solved_RCS(m, k) == {m[j] : j \in {i \in RCS[k] : Cell_solved(m[i])}}

\* Grid::get_unsolved_RCS
get_unsolved_RCS(m, k) == {j \in RCS[k] : ~Cell_solved(m[j])}

\* Grid::get_row_values, get_col_values, get_subgrid_values: the candidates
\* of the other cells of the row, the column or the subgrid of cell k.
get_row_values(m, k) ==
    UNION {m[j] : j \in {i \in Positions : SameRow(i, k) /\ i # k}}

get_col_values(m, k) ==
    UNION {m[j] : j \in {i \in Positions : SameCol(i, k) /\ i # k}}

get_subgrid_values(m, k) ==
    UNION {m[j] : j \in {i \in Positions : SameSubgrid(i, k) /\ i # k}}

Least(S) == CHOOSE v \in S : \A w \in S : v <= w
Greatest(S) == CHOOSE v \in S : \A w \in S : w <= v

\* The body of solve_for_row, solve_for_col and solve_for_subgrid for one
\* unsolved cell: each candidate that no other cell holds is assigned in
\* ascending order, so the greatest of them is the one that stays.
assign_missing(candidates, values) ==
    LET missing == {v \in candidates : v \notin values /\ v # 0}
    IN  IF Cardinality(values) # SIZE_GRID /\ missing # {}
        THEN Cell_assign(candidates, Greatest(missing))
        ELSE candidates

unit_values(m, unit, k) ==
    CASE unit = "row" -> get_row_values(m, k)
      [] unit = "col" -> get_col_values(m, k)
      [] OTHER -> get_subgrid_values(m, k)

\* The scan of solve_for_row, solve_for_col and solve_for_subgrid: a cell
\* the rule does not solve is left as it was, and the scan goes back to the
\* first cell ("row = 0; col = -1") each time it has solved one.
RECURSIVE solve_for(_, _)
solve_for(m, unit) ==
    LET hits == {k \in Positions :
                    /\ ~Cell_solved(m[k])
                    /\ Cell_solved(assign_missing(m[k], unit_values(m, unit, k)))}
    IN  IF hits = {} THEN m
        ELSE solve_for([m EXCEPT ![Least(hits)] =
                           assign_missing(@, unit_values(m, unit, Least(hits)))], unit)

solve_for_row(m) == solve_for(m, "row")
solve_for_col(m) == solve_for(m, "col")
solve_for_subgrid(m) == solve_for(m, "subgrid")

\* The candidates initialise() gives an unsolved cell: the values 1..9 that
\* no solved cell of its RCS holds (Cell::add_candidates replaces the
\* candidates of the cell by them).
feasible(m, k) == {i \in 1..9 : {i} \notin get_solved_RCS(m, k)}

\* Grid::initialise: the scan goes back to the first cell each time a cell
\* is left with one candidate.
RECURSIVE initialise(_)
initialise(m) ==
    LET hits == {k \in Positions :
                    ~Cell_solved(m[k]) /\ Cardinality(feasible(m, k)) = 1}
        upto == IF hits = {} THEN NUM_CELLS ELSE Least(hits)
        swept == stored([k \in Positions |->
                    IF k <= upto /\ ~Cell_solved(m[k]) THEN feasible(m, k) ELSE m[k]])
    IN  IF hits = {} THEN swept ELSE initialise(swept)

\* Grid::remove_candidates, from cell k on
RECURSIVE remove_candidates_from(_, _)
remove_candidates_from(m, k) ==
    IF k = NUM_CELLS THEN m
    ELSE IF Cell_solved(m[k]) THEN remove_candidates_from(m, k + 1)
    ELSE remove_candidates_from(
            [m EXCEPT ![k] = @ \ UNION get_solved_RCS(m, k)], k + 1)

remove_candidates(m) == remove_candidates_from(m, 0)

\* solve_for_naked_pairs for the cell k and one cell j of first_rcs that
\* holds the same two candidates: the pair is removed from every cell of
\* the intercept.
strike_pair(m, k, first_rcs, j) ==
    LET intercept == first_rcs \cap (get_unsolved_RCS(m, j) \ {j})
    IN  stored([i \in Positions |-> IF i \in intercept THEN m[i] \ m[k] ELSE m[i]])

\* The loop over first_rcs.  The set is ordered by the addresses of the
\* cells, which the program does not choose: the cells that hold the pair
\* of cell k may come in any order.
RECURSIVE naked_partners(_, _, _, _)
naked_partners(m, k, first_rcs, todo) ==
    LET match == {j \in todo : m[j] = m[k]}
    IN  IF match = {} THEN {m}
        ELSE UNION {naked_partners(strike_pair(m, k, first_rcs, j), k,
                                   first_rcs, todo \ {j}) : j \in match}

\* Grid::solve_for_naked_pairs, from cell k on: the grids it can leave
RECURSIVE naked_pairs_from(_, _)
naked_pairs_from(m, k) ==
    IF k = NUM_CELLS THEN {m}
    ELSE IF Cardinality(m[k]) # 2 THEN naked_pairs_from(m, k + 1)
    ELSE UNION {naked_pairs_from(m2, k + 1) :
                  m2 \in naked_partners(m, k, get_unsolved_RCS(m, k) \ {k},
                                        get_unsolved_RCS(m, k) \ {k})}

solve_for_naked_pairs(m) == naked_pairs_from(m, 0)

\* the sum of get_candidates().size() over the cells from k on
RECURSIVE count_candidates(_, _)
count_candidates(m, k) ==
    IF k = NUM_CELLS THEN 0 ELSE Cardinality(m[k]) + count_candidates(m, k + 1)

reducing_candidates_and_not_solved(no_of_candidates_before, no_of_candidates_after) ==
    /\ no_of_candidates_before # no_of_candidates_after
    /\ no_of_candidates_after # NUM_CELLS

\* the body of the loop of Grid::solve (solve_for_hidden_pairs is not called)
solve_pass(m) ==
    solve_for_naked_pairs(
        solve_for_subgrid(solve_for_col(solve_for_row(remove_candidates(m)))))

\* the loop of Grid::solve and its return value
RECURSIVE solve_loop(_, _, _)
solve_loop(m, no_of_candidates_before, no_of_candidates_after) ==
    IF reducing_candidates_and_not_solved(no_of_candidates_before,
                                          no_of_candidates_after)
    THEN UNION {solve_loop(m2, no_of_candidates_after, count_candidates(m2, 0)) :
                  m2 \in solve_pass(m)}
    ELSE {[cells |-> m, solved |-> no_of_candidates_after = NUM_CELLS]}

\* Grid::solve: the grids it can leave, each with the value it returns
Grid_solve(m) == solve_loop(initialise(m), 0, -1)

\* operator>>( std::istream&, Grid& ) on a new grid: the character of each
\* cell is converted to a number and handed to set_cell_value.
read_grid(lines) ==
    stored([k \in Positions |->
              Cell_assign(NewCells[k], DigitVal[lines[RowOf(k) + 1][ColOf(k) + 1]])])

\* A solved grid, the cells that the puzzles leave blank, and the lines of
\* the puzzle file for a set of blank cells.
SolvedRows ==
    << <<9, 5, 6, 1, 3, 8, 4, 2, 7>>, <<7, 4, 2, 5, 9, 6, 1, 8, 3>>,
       <<3, 1, 8, 4, 7, 2, 5, 6, 9>>, <<4, 8, 7, 2, 5, 9, 6, 3, 1>>,
       <<5, 2, 9, 6, 1, 3, 8, 7, 4>>, <<1, 6, 3, 8, 4, 7, 2, 9, 5>>,
       <<8, 3, 4, 7, 2, 5, 9, 1, 6>>, <<6, 9, 1, 3, 8, 4, 7, 5, 2>>,
       <<2, 7, 5, 9, 6, 1, 3, 4, 8>> >>

Blanks == {0, 2, 13, 14, 29, 32, 38, 40, 43, 45, 50, 52, 56, 61, 63, 65, 68,
           76, 77, 79}

puzzle_lines(blank) ==
    [row \in 1..SIZE_GRID |-> [col \in 1..SIZE_GRID |->
        IF (row - 1) * SIZE_GRID + (col - 1) \in blank THEN "0"
        ELSE DigitChar[SolvedRows[row][col] + 1]]]

\* a given whose removal makes the second guess of a cell succeed
Harder == {27}

\* The puzzle with all of Blanks blank, the puzzles that give one of these
\* cells as well, and the puzzles that leave a cell of Harder blank too.
Puzzles ==
    {puzzle_lines(Blanks \ more) : more \in {{}} \cup {{k} : k \in Blanks}}
        \cup {puzzle_lines(Blanks \cup {k}) : k \in Harder}

\* ------------------------------------------------------------------------
\* The program: construct a grid, then "while (g.solve() == KEEP_GOING) {}";
\* afterwards solve may be called again.
\* ------------------------------------------------------------------------
VARIABLES phase, input, guessing, err, grid, sr, calls, extra, loops,
          pending, stage, other, trial,
          pc, puzzle, a_grid, temp_grid, cursor, solved

\* The position inside a call of solve: the marks process() still has to
\* make, the stage of analysis that asked for them, and the clone and the
\* guess of the trial analyze_hypotheticals is running.
markvars == <<pending, stage, other, trial>>

\* The state of the Nurikabe program.
nurikabevars == <<phase, input, guessing, err, grid, sr, calls, extra, loops,
                  pending, stage, other, trial>>

\* The state of the Sudoku program: the position in main and in
\* solve_by_guessing, the lines of the puzzle file, the cells of a_grid and
\* of the trial grid (<<>> while the grid does not exist), the cell
\* solve_by_guessing has come to, and the value solve( a_grid ) returned.
sudokuvars == <<pc, puzzle, a_grid, temp_grid, cursor, solved>>

vars == <<phase, input, guessing, err, grid, sr, calls, extra, loops,
          pending, stage, other, trial,
          pc, puzzle, a_grid, temp_grid, cursor, solved>>

\* The Sudoku program is not running.
SudokuOff ==
    /\ pc = "off"
    /\ puzzle = <<>>
    /\ a_grid = <<>>
    /\ temp_grid = <<>>
    /\ cursor = 0
    /\ solved = FALSE

NoTrial == [k |-> -1, color |-> UNKNOWN, sr |-> "NONE"]

InitWith(I) ==
    /\ phase = "new"
    /\ input \in I
    /\ guessing \in BOOLEAN
    /\ err = "none"
    /\ grid = NoGrid
    /\ sr = "NONE"
    /\ calls = 0
    /\ extra = 0
    /\ loops = {}
    /\ pending = <<>>
    /\ stage = 0
    /\ other = NoGrid
    /\ trial = NoTrial
    /\ SudokuOff

Init == InitWith(Inputs)

\* The Nurikabe program is not running.
NurikabeOff ==
    /\ phase = "off"
    /\ input = [width |-> 0, height |-> 0, s |-> <<>>]
    /\ guessing = FALSE
    /\ err = "none"
    /\ grid = NoGrid
    /\ sr = "NONE"
    /\ calls = 0
    /\ extra = 0
    /\ loops = {}
    /\ pending = <<>>
    /\ stage = 0
    /\ other = NoGrid
    /\ trial = NoTrial

\* Grid g(w, h, s)
Construct ==
    /\ phase = "new"
    /\ \E c \in {GridCtor(input.width, input.height, input.s)} :
          /\ err' = c.err
          /\ grid' = c.g
          /\ phase' = IF c.err = "none" THEN "solving" ELSE "rejected"
    /\ UNCHANGED <<input, guessing, sr, calls, extra, loops>>
    /\ UNCHANGED markvars
    /\ UNCHANGED sudokuvars

AfterSolve(o) ==
    /\ grid' = o.g
    /\ sr' = o.sr
    /\ loops' = o.loops

\* One iteration of the caller's loop.
MainSolve ==
    /\ phase = "solving"
    /\ calls < MaxCalls
    /\ \E o \in solve(grid, guessing) :
          /\ AfterSolve(o)
          /\ phase' = IF o.sr = KEEP_GOING THEN "solving"
                      ELSE IF o.sr = LOGIC_ERROR THEN "aborted" ELSE "done"
    /\ calls' = calls + 1
    /\ UNCHANGED <<input, guessing, err, extra>>
    /\ UNCHANGED markvars
    /\ UNCHANGED sudokuvars

\* A further call of solve after the loop has ended.
SolveAgain ==
    /\ phase = "done"
    /\ extra < MaxExtra
    /\ \E gs \in BOOLEAN : \E o \in solve(grid, gs) :
          /\ AfterSolve(o)
          /\ phase' = IF o.sr = LOGIC_ERROR THEN "aborted" ELSE "done"
    /\ extra' = extra + 1
    /\ UNCHANGED <<input, guessing, err, calls>>
    /\ UNCHANGED markvars
    /\ UNCHANGED sudokuvars

Next == Construct \/ MainSolve \/ SolveAgain

Spec == Init /\ [][Next]_vars

\* main's run on wikipedia_hard (solve() with its default arguments).
InitWiki == InitWith({WikipediaHard}) /\ guessing

SpecWiki == InitWiki /\ [][Next]_vars

\* ------------------------------------------------------------------------
\* The same program followed mark by mark: a call of solve is split at the
\* calls of mark() that process() makes, and a trial of
\* analyze_hypotheticals is followed on its clone.
\* ------------------------------------------------------------------------
\* The sets of the first rule that has anything to mark (process() returns
\* false for two empty sets, and "||" goes on to the next rule).
first_marks(n, m, rest) ==
    IF m.black # {} \/ m.white # {}
    THEN [stage |-> n, black |-> m.black, white |-> m.white]
    ELSE rest

\* The chain of rules with the first two exchanged.
rule_plan_swapped(g) ==
    first_marks(2, single_liberties_marks(g),
    first_marks(1, complete_islands_marks(g),
    first_marks(3, dual_liberties_marks(g),
    first_marks(4, unreachable_cells_marks(g),
    first_marks(5, potential_pools_marks(g),
                [stage |-> 0, black |-> {}, white |-> {}])))))

rule_plan(g) ==
    first_marks(1, complete_islands_marks(g),
    first_marks(2, single_liberties_marks(g),
    first_marks(3, dual_liberties_marks(g),
    first_marks(4, unreachable_cells_marks(g),
    first_marks(5, potential_pools_marks(g),
                [stage |-> 0, black |-> {}, white |-> {}])))))

\* The calls of mark() process() makes, in their order.
mark_queue(g, mark_as_black, mark_as_white) ==
       [n \in 1..Cardinality(mark_as_black) |-> <<BLACK, InOrder(g, mark_as_black)[n]>>]
    \o [n \in 1..Cardinality(mark_as_white) |-> <<WHITE, InOrder(g, mark_as_white)[n]>>]

Returns(g, status, n) ==
    [kind |-> "return", stage |-> n, g |-> g, sr |-> status, queue |-> <<>>]

Marks(g, n, mark_as_black, mark_as_white) ==
    [kind |-> "marks", stage |-> n, g |-> g, sr |-> KEEP_GOING,
     queue |-> mark_queue(g, mark_as_black, mark_as_white)]

\* analyze_confinement, the seventh stage.
confinement_plan(g, cm) ==
    IF cm.fatal THEN Returns(g, LOGIC_ERROR, 7)
    ELSE IF cm.black # {} \/ cm.white # {} THEN Marks(g, 7, cm.black, cm.white)
    ELSE Returns(g, STUMPED, 7)

\* The sixth stage with its verdict ignored: analyze_confinement follows
\* whatever detect_contradictions has found.
detect_plan_ignored(g, d) == {confinement_plan(g, confinement_marks(g, d.cache))}

\* detect_contradictions, the sixth stage, and what follows it.
detect_plan(g, d) ==
        (IF "contradiction" \in d.results
         THEN {Returns(uh_oh(g), CONTRADICTION_FOUND, 6)} ELSE {})
   \cup (IF "fatal" \in d.results THEN {Returns(g, LOGIC_ERROR, 6)} ELSE {})
   \cup (IF "none" \in d.results
         THEN {confinement_plan(g, confinement_marks(g, d.cache))} ELSE {})

rules_plan(g, r) ==
    IF r.stage # 0 THEN {Marks(g, r.stage, r.black, r.white)}
    ELSE detect_plan(g, detect_contradictions(g))

\* What a call of solve does up to its first call of mark(): it returns a
\* status, or a stage of analysis hands its sets to process().
solve_plan(g) ==
    IF known(g) = g.m_width * g.m_height
    THEN {Returns(o.g, o.sr, 0) : o \in declare_victory(g)}
    ELSE rules_plan(g, rule_plan(g))

\* The phase after a call of solve in the caller's loop returned status.
AfterReturn(status) ==
    IF status = KEEP_GOING THEN "solving"
    ELSE IF status = LOGIC_ERROR THEN "aborted" ELSE "done"

\* g.solve() up to its first mark, or to its return.
Analyze ==
    /\ phase = "solving"
    /\ calls < MaxCalls
    /\ calls' = calls + 1
    /\ \E p \in solve_plan(grid) :
          /\ stage' = p.stage
          /\ pending' = p.queue
          /\ grid' = p.g
          /\ IF p.kind = "marks" THEN phase' = "marking" /\ sr' = sr
             ELSE IF p.sr # STUMPED THEN phase' = AfterReturn(p.sr) /\ sr' = p.sr
             ELSE IF guessing THEN phase' = "guessing" /\ sr' = sr
             ELSE phase' = "done" /\ sr' = CANNOT_PROCEED
    /\ UNCHANGED <<input, guessing, err, extra, loops, other, trial>>
    /\ UNCHANGED sudokuvars

\* One call of mark() by process(); after the last, solve returns m_sitrep.
Mark ==
    /\ phase = "marking"
    /\ pending # <<>>
    /\ \E h \in {mark(grid, Head(pending)[1], Head(pending)[2])} :
          /\ grid' = h
          /\ pending' = Tail(pending)
          /\ IF Len(pending) = 1
             THEN sr' = h.m_sitrep /\ phase' = AfterReturn(h.m_sitrep)
             ELSE sr' = sr /\ phase' = phase
    /\ UNCHANGED <<input, guessing, err, calls, extra, loops, stage, other, trial>>
    /\ UNCHANGED sudokuvars

\* The test for a failed guess made after the black trial alone.
fails_black(g, k) == CANNOT_PROCEED \in statuses(Trial(g, BLACK, k))

\* Whether both trials of cell k can end in CANNOT_PROCEED.
fails(g, k) == "failed" \in guess(g, k).does

\* The distances of the cells whose guess is conclusive whatever happens:
\* the loop over guessing_order() gets no farther than the nearest of them.
sure_classes(g) == {manhattan(g, k) : k \in {c \in unknown_cells(g) : ~fails(g, c)}}

\* "Grid other(*this); other.mark(color, x, y);" for a cell the loop can
\* come to; the white guess follows a black guess that ended in
\* CANNOT_PROCEED.
StartTrial ==
    /\ phase = "guessing"
    /\ \E sure \in {sure_classes(grid)} : \E k \in unknown_cells(grid) :
          /\ \A d \in sure : manhattan(grid, k) <= d
          /\ \E color \in {BLACK, WHITE} :
                /\ color = WHITE => CANNOT_PROCEED \in statuses(Trial(grid, BLACK, k))
                /\ other' = mark(CopyGrid(grid), color, k)
                /\ trial' = [k |-> k, color |-> color, sr |-> KEEP_GOING]
    /\ phase' = "trial"
    /\ UNCHANGED <<input, guessing, err, grid, sr, calls, extra, loops, pending, stage>>
    /\ UNCHANGED sudokuvars

\* other.solve(false, false) up to its first mark, or to its return.
TrialAnalyze ==
    /\ phase = "trial"
    /\ \E p \in solve_plan(other) :
          /\ pending' = p.queue
          /\ other' = p.g
          /\ IF p.kind = "marks" THEN phase' = "trial_marking" /\ trial' = trial
             ELSE /\ phase' = "trial_done"
                  /\ trial' = [trial EXCEPT !.sr = IF p.sr = STUMPED
                                                  THEN CANNOT_PROCEED ELSE p.sr]
    /\ UNCHANGED <<input, guessing, err, grid, sr, calls, extra, loops, stage>>
    /\ UNCHANGED sudokuvars

\* One call of mark() on the clone.
TrialMark ==
    /\ phase = "trial_marking"
    /\ pending # <<>>
    /\ \E h \in {mark(other, Head(pending)[1], Head(pending)[2])} :
          /\ other' = h
          /\ pending' = Tail(pending)
          /\ IF Len(pending) > 1 THEN phase' = phase /\ trial' = trial
             ELSE IF h.m_sitrep = KEEP_GOING THEN phase' = "trial" /\ trial' = trial
             ELSE phase' = "trial_done" /\ trial' = [trial EXCEPT !.sr = h.m_sitrep]
    /\ UNCHANGED <<input, guessing, err, grid, sr, calls, extra, loops, stage>>
    /\ UNCHANGED sudokuvars

\* The end of a trial: a contradiction or a solution hands the guessed cell
\* to process(), CANNOT_PROCEED goes on with the loop.
Conclude ==
    /\ phase = "trial_done"
    /\ other' = NoGrid
    /\ trial' = NoTrial
    /\ IF trial.sr = CONTRADICTION_FOUND
       THEN /\ pending' = <<<<IF trial.color = BLACK THEN WHITE ELSE BLACK, trial.k>>>>
            /\ phase' = "marking" /\ sr' = sr /\ stage' = 8
       ELSE IF trial.sr = SOLUTION_FOUND
       THEN /\ pending' = <<<<trial.color, trial.k>>>>
            /\ phase' = "marking" /\ sr' = sr /\ stage' = 8
       ELSE IF trial.sr = LOGIC_ERROR
       THEN /\ pending' = <<>>
            /\ phase' = "aborted" /\ sr' = LOGIC_ERROR /\ stage' = 8
       ELSE /\ pending' = <<>>
            /\ phase' = "guessing" /\ sr' = sr /\ stage' = stage
    /\ UNCHANGED <<input, guessing, err, grid, calls, extra, loops>>
    /\ UNCHANGED sudokuvars

\* The loop over guessing_order() ends: analyze_hypotheticals returns
\* false, and solve CANNOT_PROCEED.
GiveUp ==
    /\ phase = "guessing"
    /\ sure_classes(grid) = {}
    /\ phase' = "done"
    /\ sr' = CANNOT_PROCEED
    /\ UNCHANGED <<input, guessing, err, grid, calls, extra, loops, markvars>>
    /\ UNCHANGED sudokuvars

NextMarks ==
    Construct \/ Analyze \/ Mark \/ StartTrial \/ TrialAnalyze \/ TrialMark
        \/ Conclude \/ GiveUp

SpecMarks == Init /\ [][NextMarks]_vars

\* ------------------------------------------------------------------------
\* The Sudoku program: main reads a grid and calls solve( a_grid ), which is
\* "grid.solve() || grid.solve_by_guessing()".  solve_by_guessing is
\* followed trial by trial; every step is one call of Grid::solve.
\* ------------------------------------------------------------------------
InitSudoku ==
    /\ NurikabeOff
    /\ pc = "start"
    /\ puzzle \in Puzzles
    /\ a_grid = <<>>
    /\ temp_grid = <<>>
    /\ cursor = 0
    /\ solved = FALSE

\* "Grid a_grid; grids_io >> a_grid;"
ReadGrid ==
    /\ pc = "start"
    /\ a_grid' = read_grid(puzzle)
    /\ pc' = "read"
    /\ UNCHANGED <<puzzle, temp_grid, cursor, solved>>
    /\ UNCHANGED nurikabevars

\* grid.solve(), the first operand of ||
PlainSolve ==
    /\ pc = "read"
    /\ \E o \in Grid_solve(a_grid) :
          /\ a_grid' = o.cells
          /\ solved' = o.solved
          /\ pc' = IF o.solved THEN "returned" ELSE "guessing"
    /\ UNCHANGED <<puzzle, temp_grid, cursor>>
    /\ UNCHANGED nurikabevars

\* the cells from k on that hold two candidates
two_candidates(m, k) == {j \in k..(NUM_CELLS - 1) : Cardinality(m[j]) = 2}

\* The loop of solve_by_guessing comes to the next cell with two
\* candidates: temp_grid1 gets the first of them, and temp_grid1.solve().
FirstGuess ==
    /\ pc = "guessing"
    /\ two_candidates(a_grid, cursor) # {}
    /\ cursor' = Least(two_candidates(a_grid, cursor))
    /\ \E o \in Grid_solve([a_grid EXCEPT ![cursor'] = Cell_assign(@, Least(@))]) :
          /\ temp_grid' = o.cells
          /\ pc' = IF o.solved THEN "first_solved" ELSE "first_failed"
    /\ UNCHANGED <<puzzle, a_grid, solved>>
    /\ UNCHANGED nurikabevars

\* solved1 is false: temp_grid2 loses the first candidate, and
\* temp_grid2.solve(); when that fails too the loop goes on.
SecondGuess ==
    /\ pc = "first_failed"
    /\ \E o \in Grid_solve([a_grid EXCEPT ![cursor] = @ \ {Least(@)}]) :
          /\ temp_grid' = o.cells
          /\ pc' = IF o.solved THEN "second_solved" ELSE "guessing"
          /\ cursor' = IF o.solved THEN cursor ELSE cursor + 1
    /\ UNCHANGED <<puzzle, a_grid, solved>>
    /\ UNCHANGED nurikabevars

\* solved1 or solved2: the cell of this grid gets the guess, "this->solve();
\* return true;".  The second guess is read from the cell of temp_grid2,
\* which solve() left as it was.
Commit ==
    /\ pc \in {"first_solved", "second_solved"}
    /\ \E value \in {IF pc = "first_solved" THEN Least(a_grid[cursor])
                     ELSE Least(temp_grid[cursor])} :
       \E o \in Grid_solve([a_grid EXCEPT ![cursor] = Cell_assign(@, value)]) :
          a_grid' = o.cells
    /\ solved' = TRUE
    /\ pc' = "returned"
    /\ UNCHANGED <<puzzle, temp_grid, cursor>>
    /\ UNCHANGED nurikabevars

\* no cell with two candidates is left: solve_by_guessing returns false
GuessFails ==
    /\ pc = "guessing"
    /\ two_candidates(a_grid, cursor) = {}
    /\ solved' = FALSE
    /\ pc' = "returned"
    /\ UNCHANGED <<puzzle, a_grid, temp_grid, cursor>>
    /\ UNCHANGED nurikabevars

NextSudoku ==
    ReadGrid \/ PlainSolve \/ FirstGuess \/ SecondGuess \/ Commit \/ GuessFails

SpecSudoku == InitSudoku /\ [][NextSudoku]_vars

\* ------------------------------------------------------------------------
\* Properties
\* ------------------------------------------------------------------------
Cells(g) == 0..(NumCells(g) - 1)

\* The loop of the caller has run and no further call was made.
LoopEnded == phase = "done" /\ extra = 0

\* A step that is one call of solve.
SolveCall == calls' = calls + 1 \/ extra' = extra + 1

\* The cells of S joined to k by 4-neighbour steps inside S.
RECURSIVE Flood(_, _, _)
Flood(g, S, seen) ==
    LET more == {q \in S \ seen :
                   \E k \in seen : q \in SeqRange(for_valid_neighbors(g, k))}
    IN IF more = {} THEN seen ELSE Flood(g, S, seen \cup more)

Connected4(g, S) == S = {} \/ \E k \in S : Flood(g, S, {k}) = S

BlackSquare(g) ==
    \E k \in Cells(g) :
        /\ XOf(g, k) + 1 < g.m_width
        /\ YOf(g, k) + 1 < g.m_height
        /\ \A q \in {k, k + 1, k + g.m_width, k + g.m_width + 1} :
              g.cell[q] = BLACK

Solved(g) ==
    /\ \A k \in Cells(g) : g.cell[k] # UNKNOWN
    /\ ~BlackSquare(g)
    /\ \A id \in Regions(g) :
          LET r == g.m_regions[id]
          IN numbered(r) =>
                /\ Cardinality(r.m_coords) = number(r)
                /\ Connected4(g, r.m_coords)
                /\ \A k \in r.m_coords : g.cell[k] \in {WHITE, number(r)}

\* C1: whenever solve has returned SOLUTION_FOUND, the grid it leaves has no
\* Unknown cell, no 2x2 block of Black cells, and every Numbered region is
\* 4-connected and holds exactly as many cells as its clue says.
C1_SolutionIsSolved == sr = SOLUTION_FOUND => Solved(grid)

\* A solved puzzle with an island of several cells beside Black cells.
C1_Witness ==
    /\ sr = SOLUTION_FOUND
    /\ calls > 1
    /\ \E id \in Regions(grid) :
          numbered(grid.m_regions[id]) /\ size(grid.m_regions[id]) >= 2
    /\ \E k \in Cells(grid) : grid.cell[k] = BLACK

Statuses == {SOLUTION_FOUND, CONTRADICTION_FOUND, CANNOT_PROCEED}

\* What a call of solve may do if the caller's loop and the loops on
\* hypothetical clones are to end within most calls resp. the clone's cell
\* count, with one of the statuses of ends.
LoopsEndWithin(most, ends) ==
    /\ SolveCall =>
          /\ sr' = KEEP_GOING => known(grid') > known(grid)
          /\ \A t \in loops' : t.mono /\ t.calls <= t.cells /\ t.sr \in ends
    /\ calls' = calls + 1 =>
          /\ calls' <= most
          /\ calls' = most => phase' # "solving"
          /\ phase' # "solving" => sr' \in ends

\* C2 as stated: every call of solve that returns KEEP_GOING has strictly
\* increased known(), and the caller's loop (likewise the loop on each
\* hypothetical clone) ends after at most W*H calls with SOLUTION_FOUND,
\* CONTRADICTION_FOUND or CANNOT_PROCEED.
C2_Original == [][LoopsEndWithin(NumCells(grid'), Statuses)]_vars

\* C2: every call of solve that returns KEEP_GOING has strictly increased
\* known(); the caller's loop ends after at most W*H + 1 calls and the loop
\* on a hypothetical clone after at most W*H calls, with SOLUTION_FOUND,
\* CONTRADICTION_FOUND or CANNOT_PROCEED or by the logic_error that
\* confined() throws.
C2_LoopsEnd ==
    [][LoopsEndWithin(NumCells(grid') + 1, Statuses \cup {LOGIC_ERROR})]_vars

\* A second call has returned KEEP_GOING after trying hypothetical clones
\* whose own loops took several calls.
C2_Witness ==
    /\ phase = "solving"
    /\ sr = KEEP_GOING
    /\ calls >= 2
    /\ \E t \in loops : t.calls >= 2

\* The caller's loop on Centre8 ends within most calls, with the status last.
Centre8EndsWith(most, last) ==
    input = Centre8 =>
        /\ phase \notin {"rejected", "aborted"}
        /\ calls <= most
        /\ calls = most => phase # "solving"
        /\ LoopEnded => sr = last

\* C3 as stated: on the 3x3 puzzle with the single clue 8 at the centre the
\* loop of solve calls terminates with CONTRADICTION_FOUND.
C3_Original == Centre8EndsWith(NumCells(grid) + 1, CONTRADICTION_FOUND)

\* C3: on the 3x3 puzzle with the single clue 8 at the centre the loop of
\* solve calls terminates, after three calls with SOLUTION_FOUND when solve
\* guesses (its default) and after one call with CANNOT_PROCEED when it
\* does not.
C3_Centre8Ends ==
    IF guessing THEN Centre8EndsWith(3, SOLUTION_FOUND)
    ELSE Centre8EndsWith(1, CANNOT_PROCEED)

\* The loop on Centre8 has ended with a solution.
C3_Witness ==
    /\ input = Centre8
    /\ LoopEnded
    /\ calls = 3
    /\ sr = SOLUTION_FOUND
    /\ Solved(grid)

\* C4: on "wikipedia_hard", the first puzzle of main's table, the loop of
\* solve calls with guessing ends with SOLUTION_FOUND, whatever order the
\* guesses are tried in.
C4_WikipediaHardSolved ==
    input = WikipediaHard /\ guessing =>
        /\ phase \notin {"rejected", "aborted"}
        /\ phase = "solving" => calls < MaxCalls
        /\ LoopEnded => sr = SOLUTION_FOUND

\* The loop on wikipedia_hard has ended with its 10x9 grid solved.
C4_Witness ==
    /\ input = WikipediaHard
    /\ LoopEnded
    /\ sr = SOLUTION_FOUND
    /\ NumCells(grid) = 90
    /\ Solved(grid)

\* The input string read as the claims describe it: its numbers (maximal
\* runs of digits) and spaces, in order, are the cells row by row.
CellStarts(s) ==
    {i \in 1..Len(s) :
        s[i] = " " \/ (IsDigit(s[i]) /\ (i = 1 \/ ~IsDigit(s[i - 1])))}

DigitRun(s, i) == {j \in i..Len(s) : \A k \in i..j : IsDigit(s[k])}

\* The number that starts at i is a clue: it is not zero.
ClueAt(s, i) == \E j \in DigitRun(s, i) : s[j] # "0"

\* The start of the n-th number-or-space, counted from 0.
NthCell(s, n) ==
    CHOOSE i \in CellStarts(s) : Cardinality({j \in CellStarts(s) : j < i}) = n

BadCharacter(s) == \E i \in 1..Len(s) : ~IsDigit(s[i]) /\ s[i] \notin {" ", "\n"}

WrongCount(width, height, s) == Cardinality(CellStarts(s)) # width * height

ClueBelowClue(width, height, s) ==
    /\ ~WrongCount(width, height, s)
    /\ \E x \in 0..(width - 1), y \in 1..(height - 1) :
          /\ ClueAt(s, NthCell(s, x + y * width))
          /\ ClueAt(s, NthCell(s, x + (y - 1) * width))

NumberAboveIntMax(s) ==
    \E i \in CellStarts(s) :
        IsDigit(s[i]) /\ stoi([n \in 1..Cardinality(DigitRun(s, i)) |-> s[i + n - 1]], 0) < 0

ListedErrors(in) ==
    \/ in.width < 1
    \/ in.height < 1
    \/ BadCharacter(in.s)
    \/ WrongCount(in.width, in.height, in.s)
    \/ ClueBelowClue(in.width, in.height, in.s)

\* Construction has failed exactly in the cases of failing, and then there
\* is no grid.
FailsExactlyWhen(failing) ==
    phase # "new" =>
        /\ phase = "rejected" <=> failing
        /\ phase = "rejected" => err # "none" /\ grid = NoGrid
        /\ phase # "rejected" => err = "none" /\ grid # NoGrid

\* C5 as stated: construction fails, and leaves no grid, exactly if width
\* or height is below 1, the string has a character that is no digit, space
\* or newline, the count of numbers and spaces is not W*H, or a clue lies
\* directly below another clue.
C5_Original == FailsExactlyWhen(ListedErrors(input))

\* C5: construction fails, and leaves no grid, exactly in the cases C5
\* lists or if a number of the string is above INT_MAX.
C5_CtorFails == FailsExactlyWhen(ListedErrors(input) \/ NumberAboveIntMax(input.s))

\* Construction has failed on a number above INT_MAX in an input that is
\* otherwise well-formed.
C5_Witness ==
    /\ phase = "rejected"
    /\ err = "out_of_range"
    /\ ~ListedErrors(input)

\* A grid has been constructed.
Constructed == phase \in {"solving", "done", "aborted"}

ClueCells(g) == {k \in Cells(g) : g.cell[k] > 0}

\* C6: in every constructed grid no two clue cells are 4-adjacent.
C6_NoAdjacentClues ==
    Constructed =>
        \A k \in ClueCells(grid) :
            \A q \in SeqRange(for_valid_neighbors(grid, k)) : q \notin ClueCells(grid)

\* C7 as stated: the 2x2 grid from "12\n34\n" is rejected with the
\* vertically-adjacent-numbers error.
C7_Original ==
    input = TwoRows /\ phase # "new" =>
        phase = "rejected" /\ err = "vertically_adjacent"

\* C7: the 2x2 grid from "12\n34\n" is rejected, with the error of a wrong
\* count of numbers and spaces: the string holds the two numbers 12 and 34.
C7_TwoRowsRejected ==
    input = TwoRows /\ phase # "new" =>
        phase = "rejected" /\ err = "count" /\ grid = NoGrid

\* The constructor has run on "12\n34\n".
C7_Witness == input = TwoRows /\ phase = "rejected"

\* C8: no call of solve decreases known().
C8_KnownNeverDecreases == [][SolveCall => known(grid') >= known(grid)]_vars

\* Calls of solve have made cells known beyond the clues.
C8_Witness ==
    /\ calls >= 2
    /\ known(grid) > Cardinality(ClueCells(grid)) + 1

\* C9: a call of solve on a grid whose last call returned SOLUTION_FOUND
\* returns SOLUTION_FOUND again and leaves every cell and every region, its
\* coordinates and unknowns, as they were.
C9_SolvedStaysSolved ==
    [][SolveCall /\ sr = SOLUTION_FOUND =>
          /\ sr' = SOLUTION_FOUND
          /\ grid'.cell = grid.cell
          /\ grid'.region = grid.region
          /\ grid'.m_regions = grid.m_regions]_vars

\* solve has been called again on a solved grid holding Black cells.
C9_Witness ==
    /\ extra >= 1
    /\ calls >= 2
    /\ sr = SOLUTION_FOUND
    /\ Solved(grid)
    /\ \E k \in Cells(grid) : grid.cell[k] = BLACK

\* The grid is one a rule can be applied to.
Live == phase \in {"solving", "done"}

\* C10 as stated: each of the rules R1 to R5, applied twice in a row,
\* reports no change the second time.
C10_Original ==
    Live =>
        /\ ~analyze_complete_islands(analyze_complete_islands(grid).g).changed
        /\ ~analyze_single_liberties(analyze_single_liberties(grid).g).changed
        /\ ~analyze_dual_liberties(analyze_dual_liberties(grid).g).changed
        /\ ~analyze_unreachable_cells(analyze_unreachable_cells(grid).g).changed
        /\ ~analyze_potential_pools(analyze_potential_pools(grid).g).changed

\* C10: the rule R4 (unreachable cells), applied twice in a row, reports no
\* change the second time.
C10_UnreachableTwice ==
    Live => ~analyze_unreachable_cells(analyze_unreachable_cells(grid).g).changed

\* R4 blackens several cells of a grid on which solving is under way.
C10_Witness ==
    /\ Live
    /\ calls >= 1
    /\ known(analyze_unreachable_cells(grid).g) >= known(grid) + 2

\* ------------------------------------------------------------------------
\* Properties of the grid after every mark
\* ------------------------------------------------------------------------
\* A grid has been constructed.
Built == phase \notin {"new", "rejected"}

\* A trial of analyze_hypotheticals is under way.
InTrial == phase \in {"trial", "trial_marking", "trial_done"}

\* The grids that exist: the caller's, and the clone of the trial.
GridsNow ==
    IF ~Built THEN {} ELSE {grid} \cup (IF InTrial THEN {other} ELSE {})

Adjacent(g, a, b) == b \in insert_valid_neighbors(g, a)

CluesApart(g) ==
    \A a \in ClueCells(g), b \in ClueCells(g) : ~Adjacent(g, a, b)

RegionOf(g, k) == g.m_regions[g.region[k]]

\* No cell of a numbered region is beside a cell of another numbered region.
NumberedApart(g) ==
    \A a \in Cells(g), b \in Cells(g) :
        (Adjacent(g, a, b) /\ g.region[a] # 0 /\ g.region[b] # 0
            /\ g.region[a] # g.region[b])
        => ~(numbered(RegionOf(g, a)) /\ numbered(RegionOf(g, b)))

RECURSIVE SumClues(_, _)
SumClues(g, S) ==
    IF S = {} THEN 0
    ELSE LET k == CHOOSE c \in S : TRUE IN g.cell[k] + SumClues(g, S \ {k})

\* A colouring of the grid, given by the cells it makes white, is a
\* solution of the puzzle: the black cells are 4-connected and hold no 2x2
\* square, and every island holds one clue and as many cells as it says.
ValidSolution(g, whites) ==
    LET land == whites \cup ClueCells(g)
        sea == Cells(g) \ land
    IN /\ Connected4(g, sea)
       /\ ~\E k \in sea : /\ XOf(g, k) + 1 < g.m_width
                          /\ YOf(g, k) + 1 < g.m_height
                          /\ {k + 1, k + g.m_width, k + g.m_width + 1} \subseteq sea
       /\ \A c \in ClueCells(g) :
             LET isle == Flood(g, land, {c})
             IN Cardinality(isle) = g.cell[c] /\ isle \cap ClueCells(g) = {c}
       /\ \A w \in whites : \E c \in ClueCells(g) : w \in Flood(g, land, {c})

Solutions(g) ==
    {w \in SUBSET (Cells(g) \ ClueCells(g)) :
        /\ Cardinality(w) = SumClues(g, ClueCells(g)) - Cardinality(ClueCells(g))
        /\ ValidSolution(g, w)}

HasSolution(g) == Solutions(g) # {}

\* C12 as stated: from clues that are apart, no two numbered regions are
\* ever beside each other.
C12_Original == \A g \in GridsNow : CluesApart(g) => NumberedApart(g)

\* C12: from clues that are apart, after every mark either no cell of a
\* numbered region is 4-adjacent to a cell of another numbered region, or
\* m_sitrep is CONTRADICTION_FOUND.
C12_ApartUnlessContradiction ==
    \A g \in GridsNow :
        CluesApart(g) /\ g.m_sitrep = KEEP_GOING => NumberedApart(g)

\* Two islands have grown by marks and no contradiction has been noted.
C12_Witness ==
    \E g \in GridsNow :
        /\ CluesApart(g)
        /\ g.m_sitrep = KEEP_GOING
        /\ Cardinality({id \in Regions(g) : numbered(g.m_regions[id])
                                           /\ size(g.m_regions[id]) >= 2}) >= 2

AtMostClue(g) ==
    \A id \in Regions(g) :
        numbered(g.m_regions[id]) => size(g.m_regions[id]) <= number(g.m_regions[id])

Blacks(g) == Cardinality({k \in Cells(g) : g.cell[k] = BLACK})

UnknownsRight(g) ==
    \A id \in Regions(g) :
        g.m_regions[id].m_unknowns =
            {u \in Cells(g) : /\ g.cell[u] = UNKNOWN
                              /\ \E c \in g.m_regions[id].m_coords : Adjacent(g, c, u)}

\* C15: after construction and after every mark, the unknowns of every
\* region are the Unknown cells 4-adjacent to a cell of the region.
C15_UnknownsRight == \A g \in GridsNow : UnknownsRight(g)

\* C16: every known cell's handle names a region of m_regions that holds
\* the cell, the regions' coords are disjoint, and an Unknown cell has no
\* region.
C16_HandlesRight ==
    \A g \in GridsNow :
        /\ \A k \in Cells(g) :
              IF g.cell[k] = UNKNOWN THEN g.region[k] = 0
              ELSE /\ g.region[k] \in Regions(g)
                   /\ k \in g.m_regions[g.region[k]].m_coords
        /\ \A a \in Regions(g), b \in Regions(g) :
              a # b => g.m_regions[a].m_coords \cap g.m_regions[b].m_coords = {}

\* A fusion has moved a cell of a clone and of the caller's grid each into
\* a region that was made for another cell.
C16_Witness ==
    /\ InTrial
    /\ \E k \in Cells(other) : other.region[k] \notin {0, k + 1}
    /\ \E k \in Cells(grid) : grid.region[k] \notin {0, k + 1}

\* C17: after every mark the coords of every region are 4-connected, and
\* two 4-adjacent cells that are both Black, or both White or numbered, are
\* in one region unless they are in two numbered regions.
C17_RegionsMaximal ==
    \A g \in GridsNow :
        /\ \A id \in Regions(g) : Connected4(g, g.m_regions[id].m_coords)
        /\ \A a \in Cells(g), b \in Cells(g) :
              (/\ Adjacent(g, a, b)
               /\ g.cell[a] # UNKNOWN /\ g.cell[b] # UNKNOWN
               /\ (g.cell[a] = BLACK) = (g.cell[b] = BLACK)
               /\ g.region[a] # g.region[b])
              => numbered(RegionOf(g, a)) /\ numbered(RegionOf(g, b))

\* A mark has joined a cell to regions on two of its sides.
C17_Witness ==
    \E g \in GridsNow : \E id \in Regions(g) :
        /\ size(g.m_regions[id]) >= 3
        /\ \E k \in g.m_regions[id].m_coords :
              Cardinality(insert_valid_neighbors(g, k) \cap g.m_regions[id].m_coords) >= 2

\* C18: the caller's grid of a puzzle that has a solution never holds a 2x2
\* square of Black cells.
C18_NoPoolOnSolvable == Built /\ HasPool(grid) => ~HasSolution(grid)

\* analyze_potential_pools is whitening a cell of a puzzle that has a
\* solution.
C18_Witness ==
    /\ phase = "marking"
    /\ stage = 5
    /\ grid.m_width >= 2 /\ grid.m_height >= 2
    /\ HasSolution(grid)

\* C19: mark() of a cell that is not Unknown sets m_sitrep to
\* CONTRADICTION_FOUND and changes nothing else of the grid.
C19_MarkOfKnownCell ==
    [][/\ phase = "marking" /\ grid.cell[Head(pending)[2]] # UNKNOWN
            => grid' = [grid EXCEPT !.m_sitrep = CONTRADICTION_FOUND]
       /\ phase = "trial_marking" /\ other.cell[Head(pending)[2]] # UNKNOWN
            => other' = [other EXCEPT !.m_sitrep = CONTRADICTION_FOUND]]_vars

\* process() is about to mark a cell that an earlier mark of the same call
\* has made known.
C19_Witness ==
    /\ phase = "marking"
    /\ pending # <<>>
    /\ grid.cell[Head(pending)[2]] # UNKNOWN
    /\ grid.m_sitrep = KEEP_GOING

\* The calls fuse_regions(region(x, y), region(a, b)) of mark(), each with
\* the grid it finds.
RECURSIVE FuseCalls(_, _, _)
FuseCalls(g, k, nbrs) ==
    IF nbrs = <<>> THEN {}
    ELSE {<<g, g.region[k], g.region[Head(nbrs)]>>}
         \cup FuseCalls(fuse_regions(g, g.region[k], g.region[Head(nbrs)]),
                        k, Tail(nbrs))

MarkFuseCalls(g, s, k) ==
    IF g.cell[k] # UNKNOWN THEN {}
    ELSE FuseCalls(add_region([g EXCEPT !.cell[k] = s,
                      !.m_regions = [id \in DOMAIN g.m_regions |->
                          [g.m_regions[id] EXCEPT !.m_unknowns = @ \ {k}]]], k),
                   k, for_valid_neighbors(g, k))

\* The calls of fuse_regions the next mark makes.
FusesNow ==
    IF pending = <<>> THEN {}
    ELSE IF phase = "marking"
    THEN MarkFuseCalls(grid, Head(pending)[1], Head(pending)[2])
    ELSE IF phase = "trial_marking"
    THEN MarkFuseCalls(other, Head(pending)[1], Head(pending)[2])
    ELSE {}

\* A white region w and a numbered region n are fused into n.
Adopted(g, h, n, w) ==
    /\ Regions(h) = Regions(g) \ {w}
    /\ h.m_regions[n].m_state = g.m_regions[n].m_state
    /\ h.m_regions[n].m_coords = g.m_regions[n].m_coords \cup g.m_regions[w].m_coords
    /\ h.m_regions[n].m_unknowns =
          g.m_regions[n].m_unknowns \cup g.m_regions[w].m_unknowns

FuseRight(g, a, b) ==
    LET h == fuse_regions(g, a, b)
    IN (a # 0 /\ b # 0 /\ a # b) =>
          /\ black(g.m_regions[a]) # black(g.m_regions[b]) => h = g
          /\ numbered(g.m_regions[a]) /\ numbered(g.m_regions[b])
                => h.m_regions = g.m_regions /\ h.region = g.region /\ h.cell = g.cell
          /\ white(g.m_regions[a]) /\ numbered(g.m_regions[b]) => Adopted(g, h, b, a)
          /\ numbered(g.m_regions[a]) /\ white(g.m_regions[b]) => Adopted(g, h, a, b)

\* C20: fuse_regions leaves a Black and a non-Black region, and two
\* numbered regions, as they are; a White and a numbered region become one
\* numbered region with the same clue, whichever is larger, whose coords and
\* unknowns are the unions of the two.
C20_FuseRight ==
    /\ \A c \in FusesNow : FuseRight(c[1], c[2], c[3])
    /\ \A g \in GridsNow : \A a \in Regions(g), b \in Regions(g) : FuseRight(g, a, b)

\* mark() is about to fuse a White region into a smaller numbered region.
C20_Witness ==
    \E c \in FusesNow :
        /\ c[2] # 0 /\ c[3] # 0 /\ c[2] # c[3]
        /\ \E w \in {c[2], c[3]}, n \in {c[2], c[3]} :
              /\ white(c[1].m_regions[w])
              /\ numbered(c[1].m_regions[n])
              /\ size(c[1].m_regions[w]) > size(c[1].m_regions[n])

\* ------------------------------------------------------------------------
\* Properties of the Sudoku solver
\* ------------------------------------------------------------------------
\* the values of the solved cells among the cells S
SolvedValues(m, S) == UNION {m[j] : j \in {i \in S : Cell_solved(m[i])}}

\* Every cell holds exactly one candidate that is not zero, and every row,
\* column and subgrid holds each of the digits 1..9.
SudokuSolved(m) ==
    /\ \A k \in Positions : Cell_solved(m[k])
    /\ \A k \in Positions :
          /\ SolvedValues(m, {j \in Positions : SameRow(j, k)}) = 1..SIZE_GRID
          /\ SolvedValues(m, {j \in Positions : SameCol(j, k)}) = 1..SIZE_GRID
          /\ SolvedValues(m, {j \in Positions : SameSubgrid(j, k)}) = 1..SIZE_GRID

\* The givens admit a solution: SolvedRows is a solved grid, and every
\* given of the puzzle is the digit SolvedRows has there.
AdmitsSolution(lines) ==
    /\ SudokuSolved(read_grid(puzzle_lines({})))
    /\ \A row \in 1..SIZE_GRID : \A col \in 1..SIZE_GRID :
          lines[row][col] \in {"0", DigitChar[SolvedRows[row][col] + 1]}

\* C11: for a puzzle whose givens admit a solution, whenever solve( grid )
\* of sudoku.cpp has returned true, every cell of the grid holds exactly one
\* candidate that is not zero, and every row, column and 3x3 subgrid holds
\* each digit once.
C11_TrueMeansSolved ==
    (pc = "returned" /\ solved /\ AdmitsSolution(puzzle)) => SudokuSolved(a_grid)

\* ------------------------------------------------------------------------
\* Properties of solve calls and of the hypothetical search
\* ------------------------------------------------------------------------
\* mark(s, k) on the grid g finds the cell known, or calls fuse_regions on
\* two numbered regions.
BadMark(g, s, k) ==
    \/ g.cell[k] # UNKNOWN
    \/ \E c \in MarkFuseCalls(g, s, k) :
          /\ c[2] # 0 /\ c[3] # 0 /\ c[2] # c[3]
          /\ numbered(c[1].m_regions[c[2]])
          /\ numbered(c[1].m_regions[c[3]])

\* A mark of a known cell, or a mark that fuses two numbered regions, sets
\* m_sitrep to CONTRADICTION_FOUND; later marks leave it so; and the solve
\* call that made the mark returns it.
MarkedContradictionReturned ==
    [][/\ (phase = "marking" /\ pending # <<>>
             /\ BadMark(grid, Head(pending)[1], Head(pending)[2]))
          => grid'.m_sitrep = CONTRADICTION_FOUND
       /\ (Built /\ grid.m_sitrep = CONTRADICTION_FOUND)
          => grid'.m_sitrep = CONTRADICTION_FOUND
       /\ (phase = "marking" /\ phase' # "marking"
             /\ grid'.m_sitrep = CONTRADICTION_FOUND)
          => (sr' = CONTRADICTION_FOUND /\ phase' = "done")]_vars

\* C21: a solve call in which mark meets a known cell or fuses two numbered
\* regions returns CONTRADICTION_FOUND, and once m_sitrep is
\* CONTRADICTION_FOUND no solve call on the grid returns KEEP_GOING or
\* SOLUTION_FOUND: whenever the grid's m_sitrep is CONTRADICTION_FOUND, the
\* status the last solve call returned is neither of the two.
C21_ContradictionStays ==
    (phase \in {"solving", "done", "aborted"}
        /\ grid.m_sitrep = CONTRADICTION_FOUND)
    => sr \notin {KEEP_GOING, SOLUTION_FOUND}

\* The sets that rule n (R1..R5) hands to process() on the grid g.
RuleSets(g, n) ==
    CASE n = 1 -> complete_islands_marks(g)
      [] n = 2 -> single_liberties_marks(g)
      [] n = 3 -> dual_liberties_marks(g)
      [] n = 4 -> unreachable_cells_marks(g)
      [] OTHER -> potential_pools_marks(g)

\* Rule n reports a change on g: process() got a cell to mark.
RuleChanges(g, n) == RuleSets(g, n).black # {} \/ RuleSets(g, n).white # {}

\* A call of solve on the incomplete grid begins: the stage that ends the
\* analysis is the first that reports a change.
StageIsFirst ==
    (phase = "solving" /\ calls' = calls + 1
        /\ known(grid) < grid.m_width * grid.m_height)
    => /\ stage' \in 1..7
       /\ \A n \in 1..5 : n < stage' => ~RuleChanges(grid, n)
       /\ stage' <= 5 =>
             /\ RuleChanges(grid, stage')
             /\ phase' = "marking"
             /\ grid' = grid
             /\ pending' = mark_queue(grid, RuleSets(grid, stage').black,
                                      RuleSets(grid, stage').white)
       /\ stage' = 6 =>
             /\ detect_contradictions(grid).results \cap {"contradiction", "fatal"} # {}
             /\ pending' = <<>>
             /\ sr' \in {CONTRADICTION_FOUND, LOGIC_ERROR}
       /\ stage' = 7 =>
             /\ "none" \in detect_contradictions(grid).results
             /\ grid' = grid
             /\ phase' \in {"marking", "guessing", "done", "aborted"}
             /\ phase' = "marking" <=> pending' # <<>>
             /\ phase' = "guessing" => guessing
             /\ phase' = "done" => (~guessing /\ sr' = CANNOT_PROCEED)

\* The marks of a call come from one stage: process() runs once, and solve
\* returns after it; the hypothetical search marks only when the analysis
\* before it marked nothing.
OneStageMarks ==
    /\ phase = "marking" =>
          /\ stage' = stage
          /\ phase' \in {"marking", "solving", "done", "aborted"}
    /\ phase' = "marking" => phase \in {"solving", "marking", "trial_done"}
    /\ (phase = "trial_done" /\ phase' = "marking") => (stage = 7 /\ stage' = 8)
    /\ (Built /\ grid' # grid) =>
          \/ phase = "marking"
          \/ phase = "solving" /\ stage' \in {0, 6} /\ grid' = uh_oh(grid)

\* C22: a call of solve on an incomplete grid tries R1, R2, R3, R4, R5,
\* contradiction detection, confinement analysis and hypothetical search in
\* this order, each only when every stage before it reported no change, and
\* the marks of the call are those of one stage.
C22_StagesInOrder == [][StageIsFirst /\ OneStageMarks]_vars

\* The hypothetical search, the last stage, is about to mark its cell.
C22_Witness == phase = "marking" /\ stage = 8 /\ pending # <<>>

\* C23: a solve call with guessing = false runs no hypothetical search and
\* makes no clone: on every grid that exists, the caller's and the clone of
\* a trial, solve(verbose, false) runs no trial loop; a trial is under way
\* only inside a call with guessing = true on the caller's grid, and the
\* clone is the only grid beside the caller's, so no clone makes a clone.
C23_NoNestedClones ==
    /\ \A g \in GridsNow : \A o \in solve(g, FALSE) : o.loops = {}
    /\ (phase = "guessing" \/ InTrial) => guessing
    /\ (Built /\ ~InTrial) => other = NoGrid
    /\ (Built /\ ~guessing) => stage # 8

\* The solve calls on a clone have ended in CANNOT_PROCEED with cells of
\* the clone still unknown.
C23_Witness ==
    /\ phase = "trial_done"
    /\ trial.sr = CANNOT_PROCEED
    /\ unknown_cells(other) # {}
    /\ \E o \in solve(other, FALSE) : o.sr = CANNOT_PROCEED

TrialPhases == {"guessing", "trial", "trial_marking", "trial_done"}

\* C24: the marks and solve calls of a trial act on the clone alone.  The
\* clone is made with every handle pointing to a region object of its own,
\* the handles of the clone stay among its own regions, and from the first
\* trial of a hypothetical search to the end of its last the cells, the
\* regions and m_sitrep of the caller's grid are what they were.
C24_TrialLeavesGrid ==
    [][/\ (phase = "guessing" /\ phase' = "trial") =>
             /\ \A k \in DOMAIN grid.region : copied_handles(grid)[k][1] # "this"
             /\ \A k \in DOMAIN grid.region :
                   copied_handles(grid)[k][2] = CopyGrid(grid).region[k]
             /\ other' = mark(CopyGrid(grid), trial'.color, trial'.k)
       /\ phase' \in {"trial", "trial_marking", "trial_done"} =>
             \A k \in DOMAIN other'.region :
                 other'.region[k] # 0 =>
                    /\ other'.region[k] \in Regions(other')
                    /\ k \in other'.m_regions[other'.region[k]].m_coords
       /\ phase \in TrialPhases =>
             /\ grid'.cell = grid.cell
             /\ grid'.region = grid.region
             /\ grid'.m_regions = grid.m_regions
             /\ grid'.m_sitrep = grid.m_sitrep]_vars

\* A trial has ended in a contradiction after marks on the clone beyond the
\* guessed cell, two regions of the clone were fused, and the caller's grid
\* is without contradiction.
C24_Witness ==
    /\ phase = "trial_done"
    /\ trial.sr = CONTRADICTION_FOUND
    /\ grid.m_sitrep = KEEP_GOING
    /\ Cardinality({k \in DOMAIN grid.cell : other.cell[k] # grid.cell[k]}) > 1
    /\ \E k \in DOMAIN grid.cell :
          grid.region[k] # 0 /\ other.region[k] # grid.region[k]

Opposite(s) == IF s = BLACK THEN WHITE ELSE BLACK

\* The trial loop of the guess (k, c) is run: the white guess follows a
\* black guess that ended in CANNOT_PROCEED.
TrialRun(g, c, k) ==
    IF c = BLACK \/ CANNOT_PROCEED \in statuses(Trial(g, BLACK, k))
    THEN Trial(g, c, k) ELSE {}

\* h is g with one unknown cell marked: with s, where the trial of the
\* other colour ended in a contradiction or the trial of s in a solution.
GuessedRight(g, h) ==
    \E k \in unknown_cells(g) : \E s \in {BLACK, WHITE} :
        /\ h.cell = [g.cell EXCEPT ![k] = s]
        /\ \/ CONTRADICTION_FOUND \in statuses(TrialRun(g, Opposite(s), k))
           \/ SOLUTION_FOUND \in statuses(TrialRun(g, s, k))

\* Every unknown cell of g can be tried with both colours, each trial
\* ending in CANNOT_PROCEED.
AllTrialsFail(g) ==
    \A k \in unknown_cells(g) : \A c \in {BLACK, WHITE} :
        CANNOT_PROCEED \in statuses(Trial(g, c, k))

\* C25: a hypothetical search that succeeds marks one cell of the caller's
\* grid, with the opposite of the guessed colour if the trial ended in
\* CONTRADICTION_FOUND and with the guessed colour if it ended in
\* SOLUTION_FOUND; it fails only when every unknown cell has been tried
\* with Black and with White and every trial ended in CANNOT_PROCEED.
C25_SearchMarksOneCell ==
    [][/\ phase = "guessing" =>
             \A o \in solve_guessed(grid, analyze_hypotheticals(grid)) :
                 /\ o.sr = CANNOT_PROCEED => (o.g = grid /\ AllTrialsFail(grid))
                 /\ o.sr \notin {CANNOT_PROCEED, LOGIC_ERROR} => GuessedRight(grid, o.g)
       /\ (phase = "guessing" /\ phase' = "done") =>
             (AllTrialsFail(grid) /\ sr' = CANNOT_PROCEED /\ grid' = grid)
       /\ (phase = "trial_done" /\ trial.sr \in {CONTRADICTION_FOUND, SOLUTION_FOUND}) =>
             /\ phase' = "marking"
             /\ grid.cell[trial.k] = UNKNOWN
             /\ pending' = <<<<IF trial.sr = CONTRADICTION_FOUND
                               THEN Opposite(trial.color) ELSE trial.color, trial.k>>>>
       /\ (phase = "trial_done" /\ phase' = "marking") =>
             trial.sr \in {CONTRADICTION_FOUND, SOLUTION_FOUND}
       /\ (phase = "marking" /\ stage = 8) =>
             /\ grid'.cell = [grid.cell EXCEPT ![Head(pending)[2]] = Head(pending)[1]]
             /\ phase' # "marking"]_vars

\* The white trial of a cell, run after its black trial ended in
\* CANNOT_PROCEED, has ended in SOLUTION_FOUND.
C25_Witness ==
    /\ phase = "trial_done"
    /\ trial.color = WHITE
    /\ trial.sr = SOLUTION_FOUND

\* ------------------------------------------------------------------------
\* Properties of confined() and unreachable()
\* ------------------------------------------------------------------------
\* The verboten sets of analyze_confinement: every unknown cell alone, and
\* every liberty of a partial island with its unknown neighbours.
VerbotenSets(g) ==
    {{k} : k \in unknown_cells(g)}
    \cup {{u} \cup insert_valid_unknown_neighbors(g, u) :
            u \in UNION {g.m_regions[id].m_unknowns : id \in partial_islands(g)}}

\* confined(r, cache, verboten) past its shortcut: the cache handed over
\* names a verboten cell as consumed, so the flags are always propagated.
confined_in_full(g, rid, verboten) == confined(g, rid, (rid :> verboten), verboten)

\* The grids on which a call of solve begins.
CallGrids ==
    (IF phase = "solving" THEN {grid} ELSE {})
    \cup (IF phase = "trial" THEN {other} ELSE {})

\* C26: on a grid in which detect_contradictions has found nothing, for
\* every region and every verboten set of analyze_confinement, confined()
\* with the cache detect_contradictions has filled gives the result of the
\* flag propagation without the shortcut, also for a region without a
\* cache entry.
C26_CacheAgrees ==
    \A g \in CallGrids :
        LET d == detect_contradictions(g)
        IN (known(g) < NumCells(g) /\ d.results = {"none"}) =>
              \A rid \in Regions(g) : \A V \in VerbotenSets(g) :
                  confined(g, rid, d.cache, V).res = confined_in_full(g, rid, V).res

\* A region with a cache entry, a verboten set apart from the entry (the
\* shortcut answers) and a verboten set that confines the region; and a
\* region without a cache entry.
C26_Witness ==
    \E g \in CallGrids :
        LET d == detect_contradictions(g)
        IN /\ known(g) < NumCells(g)
           /\ d.results = {"none"}
           /\ \E rid \in DOMAIN d.cache : \E V \in VerbotenSets(g), U \in VerbotenSets(g) :
                 /\ d.cache[rid] \cap V = {}
                 /\ confined(g, rid, d.cache, U).res = "confined"
           /\ Regions(g) \ DOMAIN d.cache # {}

\* C27: no solve call, on the caller's grid or on a clone, comes to the
\* logic_error of confined(): the propagation for a numbered region never
\* pops an open cell that belongs to another numbered region.
C27_NeverFatal ==
    /\ phase # "aborted"
    /\ sr # LOGIC_ERROR
    /\ InTrial => trial.sr # LOGIC_ERROR

\* The logic_error is met only on grids made with two clues side by side.
FatalOnlyBesideClues == (Built /\ phase = "aborted") => ~CluesApart(grid)

\* The known cells of g are coloured as the solution with the white cells
\* w colours them.
Agrees(g, w) ==
    \A k \in Cells(g) :
        /\ g.cell[k] = WHITE => k \in w
        /\ g.cell[k] = BLACK => k \notin w

Unreachables(g) == {k \in Cells(g) : unreachable(g, k, {})}

\* C28: where unreachable(x, y) with an empty discovered set returns true
\* on a grid whose known cells agree with a solution of the puzzle, the
\* cell is black in that solution: R4 blackens no cell that is white in a
\* solution the grid can still become.
C28_UnreachableIsBlack ==
    \A g \in GridsNow :
        Unreachables(g) # {} =>
            \A w \in Solutions(g) : Agrees(g, w) => Unreachables(g) \cap w = {}

\* unreachable() has returned true for a cell beside no known white or
\* numbered cell, on a grid that agrees with a solution.
C28_Witness ==
    \E g \in GridsNow :
        /\ \E w \in Solutions(g) : Agrees(g, w)
        /\ \E k \in Unreachables(g) :
              \A m \in insert_valid_neighbors(g, k) : g.cell[m] \in {UNKNOWN, BLACK}

\* ------------------------------------------------------------------------
\* Properties of CANNOT_PROCEED and of the clues
\* ------------------------------------------------------------------------
\* g has an unknown cell and none of the contradictions
\* detect_contradictions looks for: no pool, no white region too big for
\* every island, no island above its clue, no confined region, and neither
\* too many black nor too many white and numbered cells.
Stuck(g) ==
    /\ unknown_cells(g) # {}
    /\ ~HasPool(g)
    /\ \A id \in Regions(g) :
          /\ ~(white(g.m_regions[id])
                 /\ impossibly_big_white_region(g, size(g.m_regions[id])))
          /\ ~(numbered(g.m_regions[id])
                 /\ size(g.m_regions[id]) > number(g.m_regions[id]))
          /\ confined(g, id, EmptyCache, {}).res # "confined"
    /\ Cardinality({k \in Cells(g) : g.cell[k] = BLACK}) <= g.m_total_black
    /\ Cardinality({k \in Cells(g) : g.cell[k] \notin {BLACK, UNKNOWN}})
          <= g.m_width * g.m_height - g.m_total_black

\* C29: a solve call that returns CANNOT_PROCEED, on the caller's grid or
\* on a clone, leaves the grid as the call found it, with an unknown cell
\* and without any of the contradictions detect_contradictions looks for;
\* a call that has marked a cell returns another status.
C29_CannotProceedLeavesGrid ==
    [][/\ (phase # "done" /\ phase' = "done" /\ sr' = CANNOT_PROCEED) =>
             /\ phase \in {"solving", "guessing"}
             /\ grid' = grid
             /\ Stuck(grid)
       /\ (phase = "solving" /\ phase' = "guessing") => grid' = grid
       /\ phase \in TrialPhases => grid' = grid
       /\ (InTrial /\ phase' = "trial_done" /\ trial'.sr = CANNOT_PROCEED) =>
             /\ phase = "trial"
             /\ other' = other
             /\ Stuck(other)]_vars

\* A call without guessing has returned CANNOT_PROCEED on a grid that
\* earlier calls have marked.
C29_Witness ==
    /\ phase = "done"
    /\ ~guessing
    /\ sr = CANNOT_PROCEED
    /\ calls > 1
    /\ \E k \in Cells(grid) : grid.cell[k] \in {BLACK, WHITE}

\* The cells that hold neither UNKNOWN nor WHITE nor BLACK.
NumberedCells(g) == {k \in Cells(g) : g.cell[k] \notin {UNKNOWN, WHITE, BLACK}}

\* C30 as stated: every numbered cell of a constructed grid holds a clue n
\* with 1 <= n <= W * H.
C30_Original ==
    (Built /\ phase # "off") =>
        \A k \in NumberedCells(grid) :
            1 <= grid.cell[k] /\ grid.cell[k] <= grid.m_width * grid.m_height

\* C30: every numbered cell of a constructed grid holds a clue n with
\* 1 <= n <= INT_MAX, which is the clue of its region; n can be above
\* W * H, and no solve call on such a grid returns SOLUTION_FOUND.
C30_CluesPositive ==
    (Built /\ phase # "off") =>
        /\ \A k \in NumberedCells(grid) :
              /\ 1 <= grid.cell[k] /\ grid.cell[k] <= INT_MAX
              /\ grid.region[k] \in Regions(grid)
              /\ numbered(RegionOf(grid, k))
              /\ \E c \in RegionOf(grid, k).m_coords :
                    grid.cell[c] = number(RegionOf(grid, k))
        /\ (\E k \in NumberedCells(grid) : grid.cell[k] > grid.m_width * grid.m_height)
              => sr # SOLUTION_FOUND

\* The solve loop has ended on a grid with a clue above W * H.
C30_Witness ==
    /\ phase = "done"
    /\ sr = CONTRADICTION_FOUND
    /\ \E k \in NumberedCells(grid) : grid.cell[k] > grid.m_width * grid.m_height

=============================================================================
